---- MODULE Spec2Model ----
(***************************************************************************)
(* TalentPilot: the application pipeline (orchestrator.py) driving the     *)
(* Easy Apply form handler (submission/form_handler.py), with the          *)
(* submission tracker (reporting/tracker.py) and the posting filter chain  *)
(* (evaluation/filter_chain.py).                                           *)
(*                                                                         *)
(* The pipeline is one cooperative control flow.  pc is its position at an *)
(* await; each action runs the code from one await to the next, exception  *)
(* propagation included.  What the browser shows (pages, buttons, whether  *)
(* a click lands) is the environment's choice, drawn with \E.              *)
(*                                                                         *)
(* Spec is a whole run().  SpecSearch is one _process_search call and      *)
(* SpecForm one attempt_submission call, page by page; Spec takes a form   *)
(* attempt as one step with any of the results SpecForm can end in.        *)
(* SpecAuth follows the SessionManager's calls (session_manager.py),       *)
(* SpecAdapter the PlaywrightAdapter's pages and port operations           *)
(* (browser/playwright_adapter.py), and SpecFiller one                     *)
(* populate_visible_fields call (submission/field_filler.py).              *)
(* SpecControls follows populate_visible_fields on one control, pass by    *)
(* pass, with the answers it computes; SpecFilter the filter chain object  *)
(* over a sequence of evaluate calls; SpecTracker the postings table of    *)
(* the tracker database over a sequence of upsert_posting calls.           *)
(* SpecMatch follows the lookups of one label in a response table by the   *)
(* four passes; SpecResume the select_resume calls of the resume picker    *)
(* (submission/resume_picker.py); SpecRetry one _run_with_reauth call      *)
(* taken up after the first posting of a search was recorded.              *)
(***************************************************************************)
EXTENDS Integers, Sequences, FiniteSets, TLC

\* ---------------------------------------------------------------- bounds
\* Number of search URLs build_search_urls returns for the run.
NumUrls == 3
\* Longest list of job ids one search discovers.
MaxJobs == 2
\* Total number of job ids discovered in one run.
MaxDiscovered == 2
\* Total number of SessionExpiredError signals (auth redirects) in one run.
MaxExpiries == 3
\* Largest per-session cap tried (0 = unlimited).
MaxCap == 1
\* Largest number of <button> elements on a posting page.
MaxButtons == 1
\* Largest number of <label> elements, and of <fieldset> elements, on a
\* form page.
MaxControls == 2
\* Largest number of pages opened in the browser context.
MaxPages == 3
\* Largest number of SessionManager calls (ensure_authenticated and the
\* reauthenticate calls after it) followed in one run.
MaxAuthCalls == 3
\* Largest number of years of experience the applicant is configured with.
MaxYears == 3
\* Number of populate_visible_fields calls followed on one form page.
MaxPopulateCalls == 2
\* Number of evaluate calls followed on one filter chain.
MaxEvaluations == 3
\* Number of upsert_posting calls followed on one database.
MaxUpserts == 3
\* Largest number of keys in a response table.
MaxKeys == 3
\* Largest number of resume cards on a form page.
MaxCards == 2

\* ------------------------------------------------------ program constants
MAX_REAUTH_ATTEMPTS == 3
MAX_FORM_STEPS == 10
LOGIN_POLLS == 18

\* ---------------------------------------------------------------- strings
\* A string is a sequence of characters, so that lower() and the substring
\* test of the filters are computed, not assumed.
Lower(c) ==
    CASE c = "A" -> "a" [] c = "C" -> "c" [] c = "D" -> "d" [] c = "I" -> "i"
      [] c = "S" -> "s" [] OTHER -> c

StrLower(s) == [i \in 1..Len(s) |-> Lower(s[i])]

\* Python's `t in s`
Contains(s, t) ==
    \E i \in 0..(Len(s) - Len(t)) : \A k \in 1..Len(t) : s[i + k] = t[k]

Range(seq) == { seq[i] : i \in 1..Len(seq) }

Last(seq) == seq[Len(seq)]

Companies == { <<>>, <<"A", "c">>, <<"S", "p", "C">> }
Titles == { <<>>, <<"D", "e">>, <<"S", "r", "D">> }

\* settings.blocked_companies / settings.blocked_titles
blocked_companies == << <<"S", "p">> >>
blocked_titles == << <<"s", "r">> >>

\* A failure reason: a message and, for the filters, the matched term.
\* NoReason stands for both None and "" (both are falsy in `if reason:`).
Reason(msg, term) == [msg |-> msg, term |-> term]
NoReason == Reason("", <<>>)

\* CompanyBlockFilter.__init__ / TitleBlockFilter.__init__: strip().lower()
\* of the non-blank terms (the terms here hold no blanks).
NormalizeTerms(blocked) ==
    LET F[i \in 0..Len(blocked)] ==
            IF i = 0 THEN <<>>
            ELSE IF blocked[i] # <<>> THEN Append(F[i - 1], StrLower(blocked[i]))
                 ELSE F[i - 1]
    IN  F[Len(blocked)]

\* Index of the first term of `terms` contained in `text`, 0 when none is.
FirstMatch(terms, text) ==
    LET hits == { i \in 1..Len(terms) : Contains(text, terms[i]) }
    IN  IF hits = {} THEN 0
        ELSE CHOOSE i \in hits : \A j \in hits : i <= j

\* The company filter comparing the company as extracted, without lower().
CompanyBlockFilter_check_case_sensitive(p) ==
    LET terms == NormalizeTerms(blocked_companies)
        i == FirstMatch(terms, p.company)
    IN  IF i = 0 THEN NoReason ELSE Reason("blocked_company:", terms[i])

CompanyBlockFilter_check(p) ==
    LET terms == NormalizeTerms(blocked_companies)
        i == FirstMatch(terms, StrLower(p.company))
    IN  IF i = 0 THEN NoReason ELSE Reason("blocked_company:", terms[i])

TitleBlockFilter_check(p) ==
    LET terms == NormalizeTerms(blocked_titles)
        i == FirstMatch(terms, StrLower(p.title))
    IN  IF i = 0 THEN NoReason ELSE Reason("blocked_title:", terms[i])

\* build_filter_chain: company filter first, then title filter; empty (the
\* code's None head) when both lists are empty.
build_filter_chain ==
    (IF Len(blocked_companies) > 0 THEN <<"company">> ELSE <<>>)
        \o (IF Len(blocked_titles) > 0 THEN <<"title">> ELSE <<>>)

\* PostingFilter.evaluate: the first filter of the chain that rejects.
evaluate(p) ==
    LET chain == build_filter_chain
        check(f) == IF f = "company" THEN CompanyBlockFilter_check(p)
                    ELSE TitleBlockFilter_check(p)
        E[i \in 1..(Len(chain) + 1)] ==
            IF i > Len(chain) THEN NoReason
            ELSE IF check(chain[i]) # NoReason THEN check(chain[i])
                 ELSE E[i + 1]
    IN  E[1]

\* --------------------------------------------------------------- postings
\* JobPosting (platform is always "linkedin"; url is a function of the id).
JobPosting(job_id, title, company) ==
    [platform_id |-> job_id, title |-> title, company |-> company]

JobIds == 1..MaxJobs

\* Lists of distinct job ids (scrape_search_results deduplicates).
RECURSIVE JobListsOfLen(_)
JobListsOfLen(n) ==
    IF n = 0 THEN { <<>> }
    ELSE { Append(l, j) : l \in JobListsOfLen(n - 1), j \in JobIds }

NoDup(l) == \A i, j \in 1..Len(l) : i # j => l[i] # l[j]

JobLists(maxLen) ==
    { l \in UNION { JobListsOfLen(n) : n \in 0..maxLen } : NoDup(l) }

\* ---------------------------------------------------------------- tracker
\* SubmissionTracker: the postings table, the committed submissions rows and
\* the rows executed on the connection but not yet committed.
\* upsert_posting: the existing row, else INSERT and commit (the commit is
\* the connection's: it takes the rows executed before it along).
upsert_posting(t, p) ==
    IF \E i \in 1..Len(t.postings) : t.postings[i].platform_id = p.platform_id
    THEN t
    ELSE [t EXCEPT !.postings = Append(@, p),
                   !.submissions = @ \o t.pending,
                   !.pending = << >>]

posting_row_id(t, p) ==
    CHOOSE i \in 1..Len(t.postings) : t.postings[i].platform_id = p.platform_id

\* record_submission without its final commit: the INSERT alone.
record_submission_nocommit(t, posting_id, outcome, failure_reason) ==
    [t EXCEPT !.pending = Append(@, [posting_id |-> posting_id,
                                     outcome |-> outcome,
                                     failure_reason |-> failure_reason])]

\* record_submission: INSERT, then commit.
record_submission(t, posting_id, outcome, failure_reason) ==
    [t EXCEPT !.submissions = (@ \o t.pending)
                  \o << [posting_id |-> posting_id, outcome |-> outcome,
                         failure_reason |-> failure_reason] >>,
              !.pending = <<>>]

\* ApplicationPipeline._record
record(t, p, outcome, failure_reason) ==
    LET t1 == upsert_posting(t, p)
    IN  record_submission(t1, posting_row_id(t1, p), outcome, failure_reason)

\* ------------------------------------------------------ the postings table
\* The postings upsert_posting is called with: two platforms, MaxJobs
\* platform ids and two titles, so that postings of one identity differ.
TrackedPostings ==
    [ platform : { "linkedin", "other" }, platform_id : JobIds,
      title : { "Dev", "Lead" } ]

\* The rows of the postings table with UNIQUE(platform, platform_id) that
\* hold this identity (tracker.py 113-117).
rows_of(rows, p) ==
    { i \in 1..Len(rows) : /\ rows[i].platform = p.platform
                           /\ rows[i].platform_id = p.platform_id }

\* An upsert that writes the posting's fields over the row it finds.
upsert_posting_row_replacing(rows, p) ==
    IF rows_of(rows, p) # {}
    THEN [i \in 1..Len(rows) |-> IF i \in rows_of(rows, p) THEN p ELSE rows[i]]
    ELSE Append(rows, p)
\* SubmissionTracker.upsert_posting (tracker.py 111-137) on the rows of the
\* table, a row's id being its place (AUTOINCREMENT, and no row is ever
\* deleted): the row found is left as it is, else the posting is inserted.
upsert_posting_row(rows, p) ==
    IF rows_of(rows, p) # {} THEN rows ELSE Append(rows, p)

\* The id upsert_posting returns: row["id"] of the row found, else
\* cur.lastrowid of the insert (119, 137).
upsert_posting_id(rows, p) ==
    IF rows_of(rows, p) # {} THEN CHOOSE i \in rows_of(rows, p) : TRUE
    ELSE Len(rows) + 1

\* The tracker's database: the rows of postings, the number of submissions
\* rows, and the upsert_posting calls made, each with its posting and the id
\* returned.
Database == [ postings |-> << >>, submissions |-> 0, upserts |-> << >> ]

\* ---------------------------------------------------------- form handler
\* The modal as one step of the form shows it: `sel` are the controls the
\* Playwright selector lists find (_SUBMIT_SELECTORS, _REVIEW_SELECTORS,
\* _NEXT_SELECTORS); `js` are, in DOM order, the buttons only the script scan
\* of _js_click_bottom_button sees (text or aria-label containing submit, or
\* next/review/continue), e.g. a button whose aria-label is not one of the
\* exact labels, or one that appears after the selector timeout.
Pages ==
    { [sel |-> s, js |-> j] :
        s \in SUBSET {"submit", "review", "next"},
        j \in { <<>>, <<"submit">>, <<"nav">>, <<"submit", "nav">>, <<"nav", "submit">> } }

FSE_NotClickable == "Submit button not clickable after all attempts."
FSE_NoButton == "No Submit, Review, or Next button found on form step."
FSE_MaxSteps == "Exceeded max form steps (10)."
ClickError == "Timeout 5000ms exceeded."

Returned(value, clicked) ==
    [kind |-> "return", value |-> value, clicked |-> clicked]
Raised(kind, msg) == [kind |-> kind, value |-> msg, clicked |-> FALSE]
NoResult == [kind |-> "none", value |-> "", clicked |-> FALSE]

\* _find_submit_with_scroll: a Submit control found by the selector list
\* (directly, after scrolling, or after the script scrolled it into view).
find_submit_with_scroll(page) == "submit" \in page.sel

\* _submit_final without its simulation branch.
submit_final_ignoring_simulation(simulation, c1, c2, c3) ==
    IF c1 \/ c2 \/ c3 THEN Returned("succeeded", TRUE)
    ELSE Raised("FormSubmissionError", FSE_NotClickable)

\* _submit_final reporting a simulated submission as "succeeded".
submit_final_simulated_success(simulation, c1, c2, c3) ==
    IF simulation THEN Returned("succeeded", FALSE)
    ELSE IF c1 \/ c2 \/ c3 THEN Returned("succeeded", TRUE)
    ELSE Raised("FormSubmissionError", FSE_NotClickable)

\* _submit_final: c1, c2, c3 tell whether the script click on the handle,
\* the forced native click and _js_click_submit succeed.
submit_final(simulation, c1, c2, c3) ==
    IF simulation THEN Returned("dry_run", FALSE)
    ELSE IF c1 \/ c2 \/ c3 THEN Returned("succeeded", TRUE)
    ELSE Raised("FormSubmissionError", FSE_NotClickable)

\* Whether _submit_final dispatches a click on the Submit control.
submit_final_clicks(simulation) == ~simulation

\* _js_click_bottom_button: clicks the last matching button, if any.
js_click_bottom_button(page) == page.js # <<>>
js_bottom_button(page) == page.js[Len(page.js)]

\* The end of the stepping loop without Submit: no control at all, or the
\* bound exhausted.
no_submit_result(simulation, msg) ==
    IF simulation THEN Returned("dry_run", FALSE)
    ELSE Raised("FormSubmissionError", msg)

\* The loop bound taken inclusively: range(_MAX_FORM_STEPS + 1).
loop_continues_inclusive(n) == n <= MAX_FORM_STEPS

\* for step in range(_MAX_FORM_STEPS): the loop may run another iteration.
loop_continues(n) == n < MAX_FORM_STEPS

\* The click strategies of _submit_final in the order of the code
\* (form_handler.py 132-150): the script click on the element handle, the
\* forced native click, _js_click_submit.
STRATEGIES == << "script_click", "forced_click", "js_click_submit" >>

\* A _submit_final that tries every strategy, whatever the earlier ones did.
submit_strategies_all(simulation, c1, c2, c3) ==
    [ tried |-> IF simulation THEN << >> ELSE STRATEGIES,
      ok |-> IF simulation THEN << >> ELSE << c1, c2, c3 >> ]
\* The strategies a _submit_final call tries and what each reports: none
\* under simulation (114-117); else the script click, the forced click
\* `if not clicked`, _js_click_submit `if not clicked` (133-150).
submit_strategies(simulation, c1, c2, c3) ==
    IF simulation THEN [ tried |-> << >>, ok |-> << >> ]
    ELSE IF c1 THEN [ tried |-> SubSeq(STRATEGIES, 1, 1), ok |-> << c1 >> ]
    ELSE IF c2 THEN [ tried |-> SubSeq(STRATEGIES, 1, 2), ok |-> << c1, c2 >> ]
    ELSE [ tried |-> STRATEGIES, ok |-> << c1, c2, c3 >> ]

\* A _submit_final call (form_handler.py 112-158): whether it ran, and the
\* strategies it tried.
SubmitFinalCall(strategies) ==
    [ called |-> TRUE, tried |-> strategies.tried, ok |-> strategies.ok ]
NoSubmitFinal == [ called |-> FALSE, tried |-> << >>, ok |-> << >> ]

\* The affordances an iteration of the stepping loop looks for, in the order
\* of its checks (form_handler.py 310, 316, 327, 330).
AFFORDANCES == << "submit", "review", "next", "fallback" >>

\* An iteration of the stepping loop: the page it met, the affordances it
\* looked for and those it acted on, in order, and how it ended ("continue":
\* the next iteration follows; "terminal": _submit_final took over;
\* "no_control"; "raised": an exception left the loop).
Iteration(page, looked, acted, exit) ==
    [ page |-> page, looked |-> looked, acted |-> acted, exit |-> exit ]
NoIteration == Iteration([sel |-> {}, js |-> << >>], << >>, << >>, "none")

\* The ways attempt_submission can end, over every sequence of pages the
\* browser may show: what _submit_final can yield, the exception of a forced
\* click on Review or Next, and the ends of _navigate_multi_step from
\* iteration n on.
submit_results(simulation) ==
    { submit_final(simulation, c1, c2, c3) : c1, c2, c3 \in BOOLEAN }

RECURSIVE multi_step_results(_, _)
multi_step_results(simulation, n) ==
    IF ~loop_continues(n) THEN { no_submit_result(simulation, FSE_MaxSteps) }
    ELSE submit_results(simulation)
            \cup { Raised("Exception", ClickError),
                   no_submit_result(simulation, FSE_NoButton) }
            \cup multi_step_results(simulation, n + 1)

attempt_results(simulation) ==
    submit_results(simulation) \cup { Raised("Exception", ClickError) }
        \cup multi_step_results(simulation, 0)

\* ------------------------------------------------------------------ state
VARIABLES
    settings,       \* AppSettings: simulation_mode, max_submissions_per_session
    pc,             \* where run() stands (the await it is suspended at)
    urlIdx,         \* index of the search URL of run()'s for loop
    attempt,        \* _run_with_reauth's loop variable
    jobs,           \* job_ids of the running _process_search
    jobIdx,         \* index of the posting of _process_search's for loop
    visited,        \* jobs navigated to by the running _process_search, in order
    posting,        \* the JobPosting of the running _process_single_posting
    metrics,        \* SessionMetrics
    tracker,        \* SubmissionTracker
    launched,       \* adapter.launch() has returned
    closeLog,       \* the close() calls run()'s finally clause made, in order
    runExc,         \* the exception run() ends with ("none": it returns)
    fpc,            \* where attempt_submission stands
    step,           \* _navigate_multi_step's loop variable
    fres,           \* how attempt_submission ended
    submitClicked,  \* a click was dispatched on a Submit control in this attempt
    searchLog,      \* url index of every _process_search call, in order
    reauthLog,      \* every reauthenticate() call, in order: the url index it
                    \* was made for and whether it returned
    expiredLog,     \* url index of every SessionExpiredError raised, in order
    inv,            \* the last _process_single_posting call: job, records written,
                    \* how it ended, what attempt_submission did, the details
                    \* extracted from its page, what the Easy Apply lookup gave
                    \* ("element", "None" or "Exception"), where it called
                    \* ensure_valid_page
    capRaised,      \* CapReachedError has been raised
    exhaustedAt,    \* url index at which re-authentication was exhausted (0: never)
    interrupt,      \* where the operator's interrupt was delivered
    discovered,     \* number of job ids discovered so far
    recordCalls,    \* number of _record calls so far
    sm,             \* the SessionManager: its credentials, the storage-state file,
                    \* and the call of ensure_authenticated / reauthenticate
                    \* in progress
    ad,             \* the PlaywrightAdapter: its context, the tracked page, the
                    \* context's open pages, and its last operation
    ff,             \* one populate_visible_fields call: the pass it is in, the
                    \* controls left and what was done with the others
    fm,             \* a form page under populate_visible_fields: its control,
                    \* and the call and the pass populate_visible_fields is at
    fc,             \* the filter chain of the pipeline and the evaluate calls
                    \* made on it
    db,             \* the tracker database: its postings rows, column by
                    \* column, and the upsert_posting calls made on it
    ms,             \* the last iteration of the stepping loop: the page it
                    \* met, the controls it looked for and those it acted
                    \* on, in order
    sf,             \* the last _submit_final call: the click strategies it
                    \* tried, in order, and whether each succeeded
    rt,             \* a response table, a label, and the pass that looked the
                    \* label up with the answer it found
    rp              \* a select_resume call: what it finds on the page and what it does

\* Number of reauthenticate() calls so far.
reauthCalls == Len(reauthLog)

vars == << settings, pc, urlIdx, attempt, jobs, jobIdx, visited, posting, metrics,
           tracker, launched, closeLog, runExc, fpc, step, fres, submitClicked,
           searchLog, reauthLog, expiredLog, inv, capRaised, exhaustedAt,
           interrupt, discovered, recordCalls, sm, ad, ff, fm, fc, db, ms, sf, rt, rp >>

\* What the steps of the pipeline leave as it is: the settings, and the
\* session manager, the adapter's pages, the field filler, the form page it
\* fills, the filter chain and the postings table, whose operations are
\* taken step by step in SpecAuth, SpecAdapter, SpecFiller, SpecControls,
\* SpecFilter and SpecTracker.
offstage == << settings, sm, ad, ff, fm, fc, db, rt, rp >>

\* run()'s and _process_search's control state
ctl == << pc, urlIdx, attempt, jobs, jobIdx, visited >>
\* the ApplicationFormHandler of one attempt
formVars == << fpc, step, fres, submitClicked, ms, sf >>
\* the session's persistent data
store == << metrics, tracker, recordCalls >>
\* how run() started and ended
exitVars == << launched, closeLog, runExc, interrupt >>
\* the history of searches and re-authentications
authLog == << searchLog, reauthLog, expiredLog, exhaustedAt >>

\* ---------------------------------------------------------------- adapter
\* What the last operation did when it was navigate: how each page.goto
\* ended, in order, and whether ensure_valid_page ran between them.
NavigateCall(loads, recovered) == [ loads |-> loads, recovered |-> recovered ]
\* The last operation was not navigate.
NoNavigate == NavigateCall(<< >>, FALSE)

\* PlaywrightAdapter.  Pages are numbered in the order they are opened;
\* `pages` is context.pages (the open pages, oldest first), `page` the
\* tracked page (0: None), `stealth` the pages apply_stealth ran on.
\* __init__ (context "None"), or the adapter after launch() (one page, with
\* the stealth script).  The last operation made through the port is kept:
\* its name, whether its selector matched an element on the page it read,
\* how it ended and what it returned.
PlaywrightAdapter(context) ==
    [ context |-> context,
      page |-> IF context = "None" THEN 0 ELSE 1,
      pages |-> IF context = "None" THEN << >> ELSE << 1 >>,
      stealth |-> IF context = "None" THEN {} ELSE { 1 },
      next |-> IF context = "None" THEN 1 ELSE 2,
      op |-> "none", present |-> FALSE, ret |-> "none", value |-> "none",
      flow |-> "idle", switched |-> FALSE, exit |-> "none", close_requested |-> {},
      nav |-> NoNavigate ]

\* `self._page and not self._page.is_closed()`
page_open(a) == a.page # 0 /\ a.page \in Range(a.pages)

\* ensure_valid_page that never leaves the tracked page it finds.
ensure_valid_page_keeps(a) == a

\* ensure_valid_page (playwright_adapter.py 160-182)
ensure_valid_page(a) ==
    IF a.context = "None" THEN a
    ELSE IF page_open(a) THEN a
    ELSE IF a.pages # << >> THEN [a EXCEPT !.page = a.pages[1]]
    ELSE [a EXCEPT !.page = a.next,
                   !.pages = << a.next >>,
                   !.stealth = @ \cup { a.next },
                   !.next = @ + 1]

\* close_extra_pages that closes the other pages and leaves the tracked page
\* as it finds it.
close_extra_pages_keeping_tracked(a, survivors) ==
    IF a.context = "None" \/ Len(a.pages) <= 1 THEN [a EXCEPT !.close_requested = {}]
    ELSE [a EXCEPT !.pages = SelectSeq(a.pages,
                                       LAMBDA q : q = a.pages[1] \/ q \in survivors),
                   !.close_requested = Range(a.pages) \ { a.pages[1] }]

\* close_extra_pages (playwright_adapter.py 184-200): the first page is
\* tracked; close() is called on each of the others, and those whose close()
\* raised stay open.
close_extra_pages(a, survivors) ==
    IF a.context = "None" THEN [a EXCEPT !.close_requested = {}]
    ELSE IF Len(a.pages) <= 1
    THEN IF a.pages # << >> THEN [a EXCEPT !.page = a.pages[1], !.close_requested = {}]
         ELSE [a EXCEPT !.close_requested = {}]
    ELSE [a EXCEPT !.page = a.pages[1],
                   !.pages = SelectSeq(a.pages,
                                       LAMBDA q : q = a.pages[1] \/ q \in survivors),
                   !.close_requested = Range(a.pages) \ { a.pages[1] }]

\* _process_single_posting after the click on Easy Apply (orchestrator.py
\* 191-197): with more than one page in the context the newest is tracked.
switch_to_newest_page(a) ==
    IF a.context # "None" /\ Len(a.pages) > 1
    THEN [a EXCEPT !.page = a.pages[Len(a.pages)], !.switched = TRUE]
    ELSE [a EXCEPT !.switched = FALSE]

\* The ways handler.attempt_submission() ends (orchestrator.py 211-229).
AttemptExits == { "returned", "FormSubmissionError", "Exception", "CancelledError" }

\* The cleanup running only after an attempt that returned.
attempt_finally_on_return(exit) ==
    IF exit = "returned" THEN "close_extra_pages" ELSE "idle"

\* `finally:` of the form attempt (orchestrator.py 230-234): the cleanup
\* follows every exit.
attempt_finally(exit) == "close_extra_pages"

\* The messages of the exceptions page.goto raises, word by word: the
\* target was closed, the load timed out, the page crashed, and the assert of
\* the `page` property on an adapter that was not launched
\* (playwright_adapter.py 30-33).
TargetClosedMsg == << "Target", "page", "context", "or", "browser", "has", "been", "closed" >>
TimeoutMsg == << "Timeout", "30000ms", "exceeded" >>
TargetCrashedMsg == << "Target", "crashed" >>
NotLaunchedMsg == << "Browser", "not", "launched" >>
\* page.goto returned.
Loaded == << "ok" >>
LoadErrors == { TargetClosedMsg, TimeoutMsg, TargetCrashedMsg, NotLaunchedMsg }

\* The handler retrying after any exception.
is_closed_target_any(msg) == TRUE

\* `"Target" in str(exc) and "closed" in str(exc)` (playwright_adapter.py 91).
is_closed_target(msg) == "Target" \in Range(msg) /\ "closed" \in Range(msg)

\* navigate (playwright_adapter.py 87-95): page.goto ends as `first` (Loaded or
\* the message of its exception); after a closed-target exception
\* ensure_valid_page runs and page.goto is called again, ending as `second`,
\* outside any try block; any other exception is raised again.
navigate(a, first, second) ==
    IF first = Loaded
    THEN [ a |-> a, ret |-> "returned", nav |-> NavigateCall(<< first >>, FALSE) ]
    ELSE IF is_closed_target(first)
    THEN [ a |-> ensure_valid_page(a),
           ret |-> IF second = Loaded THEN "returned" ELSE "raised",
           nav |-> NavigateCall(<< first, second >>, TRUE) ]
    ELSE [ a |-> a, ret |-> "raised", nav |-> NavigateCall(<< first >>, FALSE) ]

\* What an operation of the port gives: the adapter after it, whether it
\* returned or raised, and the value returned.
PortResult(a, ret, value) == [a |-> a, ret |-> ret, value |-> value]

\* query with its try block removed.
query_unguarded(a, present) ==
    IF page_open(a) /\ present THEN PortResult(a, "returned", "handle")
    ELSE PortResult(a, "raised", "none")

\* query (playwright_adapter.py 99-106): the handle, or None on any
\* exception of wait_for_selector, after a page recovery when the tracked
\* page is closed.
query(a, present) ==
    IF page_open(a)
    THEN PortResult(a, "returned", IF present THEN "handle" ELSE "None")
    ELSE PortResult(ensure_valid_page(a), "returned", "None")

\* query_all (108-117): the list, or after an exception a page recovery and
\* one retry, whose exception gives [].
query_all(a, present) ==
    IF page_open(a)
    THEN PortResult(a, "returned", IF present THEN "list" ELSE "[]")
    ELSE LET a1 == ensure_valid_page(a)
         IN  PortResult(a1, "returned",
                        IF page_open(a1) /\ present THEN "list" ELSE "[]")

\* fill and click (121-125): the page's own fill/click, unguarded.
click(a, present) ==
    IF page_open(a) /\ present THEN PortResult(a, "returned", "None")
    ELSE PortResult(a, "raised", "none")

\* inner_text and inner_html (129-139): "" when query gives None, else the
\* element's text, whose read raises on a stale handle.
inner_text(a, present, stale) ==
    LET q == query(a, present)
    IN  IF q.value = "None" THEN PortResult(q.a, "returned", "empty_string")
        ELSE IF stale THEN PortResult(q.a, "raised", "none")
        ELSE PortResult(q.a, "returned", "text")

\* get_attribute (141-145)
get_attribute(a, present, stale) ==
    LET q == query(a, present)
    IN  IF q.value = "None" THEN PortResult(q.a, "returned", "None")
        ELSE IF stale THEN PortResult(q.a, "raised", "none")
        ELSE PortResult(q.a, "returned", "attribute")

\* wait_for_selector (208-214): the handle, or None on any exception.
wait_for_selector(a, present) ==
    PortResult(a, "returned", IF page_open(a) /\ present THEN "handle" ELSE "None")

LookupOps == { "query", "query_all", "wait_for_selector",
               "inner_text", "inner_html", "get_attribute" }
ActOps == { "click", "fill" }

\* The operation `op` of the port on a selector that matches an element of
\* the page read (present) or none; stale: the handle found no longer
\* belongs to the page when it is read.
port(op, a, present, stale) ==
    CASE op = "query" -> query(a, present)
      [] op = "query_all" -> query_all(a, present)
      [] op = "wait_for_selector" -> wait_for_selector(a, present)
      [] op \in { "inner_text", "inner_html" } -> inner_text(a, present, stale)
      [] op = "get_attribute" -> get_attribute(a, present, stale)
      [] op \in ActOps -> click(a, present)

\* ------------------------------------------------------------ field filler
\* A populate_visible_fields call on a form page with `labels` <label>
\* elements and `fieldsets` <fieldset> elements: the pass it is in, the
\* passes whose exception was caught and logged, and what was done with each
\* label and each fieldset handled so far.
FieldFiller(labels, fieldsets) ==
    [ pass |-> "scroll", labels |-> labels, fieldsets |-> fieldsets,
      absorbed |-> {}, label_done |-> << >>, fieldset_done |-> << >> ]

\* What one iteration of _fill_text_inputs' loop meets (field_filler.py
\* 92-128), in the order of its awaits: the handle is stale when the label's
\* text is read; the text is empty; no response key matches; reading the
\* `for` attribute raises; there is none; no element has that id; is_visible
\* raises; the input is hidden; it holds a value; fill raises; it is filled.
LabelCases ==
    { "inner_text_raises", "empty_text", "no_match", "get_attribute_raises",
      "no_for", "input_missing", "is_visible_raises", "hidden", "has_value",
      "fill_raises", "filled" }

\* One iteration of _fill_text_inputs' loop: none of its awaits is inside a
\* try block.
fill_text_input(case) ==
    IF case \in { "inner_text_raises", "get_attribute_raises",
                  "is_visible_raises", "fill_raises" } THEN "raised"
    ELSE IF case = "filled" THEN "filled"
    ELSE "skipped"

\* What one iteration of the fieldset loop of _fill_radio_buttons meets
\* (field_filler.py 341-397): query_selector("legend") raises; the legend
\* and span texts cannot be read (caught: no group label); no response key
\* matches; the query for a checked radio raises; one is checked; the
\* radio's label is stale (caught) and reading its value attribute raises;
\* no radio matches; both clicks on the matching radio fail (caught); the
\* matching radio is clicked.
FieldsetCases ==
    { "legend_query_raises", "label_stale", "no_match", "checked_query_raises",
      "already_checked", "value_attribute_raises", "no_radio_matches",
      "click_fails", "selected" }

\* One iteration of the fieldset loop: the reads of the legend, span and
\* radio label texts and the clicks are guarded, the queries on the fieldset
\* and the read of the value attribute are not.
fill_radio_fieldset(case) ==
    IF case \in { "legend_query_raises", "checked_query_raises",
                  "value_attribute_raises" } THEN "raised"
    ELSE IF case = "selected" THEN "filled"
    ELSE "skipped"

\* ------------------------------------------------- the filter chain object
\* str.strip(): the string without its leading and trailing blanks.
RECURSIVE Strip(_)
Strip(s) ==
    IF s = << >> THEN s
    ELSE IF Head(s) = " " THEN Strip(Tail(s))
    ELSE IF Last(s) = " " THEN Strip(SubSeq(s, 1, Len(s) - 1))
    ELSE s

\* The blocked_companies and blocked_titles lists a settings file may hold:
\* empty, of blank terms only, of one term, of two terms, with mixed case
\* and blanks around the terms.
CompanyTermLists ==
    { << >>, << << " " >> >>, << << "S", "p" >> >>,
      << << " ", "C" >>, << "S", "p" >> >>, << << >>, << "a", " " >> >> }
TitleTermLists ==
    { << >>, << << " " >> >>, << << "s", "r" >> >>,
      << << "D", " " >>, << "e" >> >> }

\* The comprehension of the filters' __init__ without its `if c.strip()`.
blocked_terms_keeping_blanks(blocked) ==
    [i \in 1..Len(blocked) |-> StrLower(Strip(blocked[i]))]
\* The comprehension testing the term as written: `if c`.
blocked_terms_testing_unstripped(blocked) ==
    LET F[i \in 0..Len(blocked)] ==
            IF i = 0 THEN << >>
            ELSE IF blocked[i] # << >>
                 THEN Append(F[i - 1], StrLower(Strip(blocked[i])))
                 ELSE F[i - 1]
    IN  F[Len(blocked)]
\* [c.strip().lower() for c in blocked if c.strip()] (filter_chain.py 45, 61)
blocked_terms(blocked) ==
    LET F[i \in 0..Len(blocked)] ==
            IF i = 0 THEN << >>
            ELSE IF Strip(blocked[i]) # << >>
                 THEN Append(F[i - 1], StrLower(Strip(blocked[i])))
                 ELSE F[i - 1]
    IN  F[Len(blocked)]

\* A filter object: its class and its _blocked list; its _next is the
\* filter after it in the chain.
CompanyBlockFilter(blocked) == [kind |-> "company", blocked |-> blocked_terms(blocked)]
TitleBlockFilter(blocked) == [kind |-> "title", blocked |-> blocked_terms(blocked)]

\* build_filter_chain(blocked_companies, blocked_titles) (filter_chain.py
\* 72-89): the filters of the non-empty lists, the company filter first; the
\* empty chain is the code's None.
build_chain(companies, titles) ==
    (IF Len(companies) > 0 THEN << CompanyBlockFilter(companies) >> ELSE << >>)
        \o (IF Len(titles) > 0 THEN << TitleBlockFilter(titles) >> ELSE << >>)

\* CompanyBlockFilter._check and TitleBlockFilter._check (47-53, 63-69)
filter_check(f, p) ==
    LET text == StrLower(IF f.kind = "company" THEN p.company ELSE p.title)
        i == FirstMatch(f.blocked, text)
    IN  IF i = 0 THEN NoReason
        ELSE Reason(IF f.kind = "company" THEN "blocked_company:"
                    ELSE "blocked_title:", f.blocked[i])

\* PostingFilter.evaluate on the head of the chain (23-33): the reason of
\* the first filter that rejects, else that of its _next.
RECURSIVE chain_evaluate(_, _)
chain_evaluate(chain, p) ==
    IF chain = << >> THEN NoReason
    ELSE IF filter_check(Head(chain), p) # NoReason THEN filter_check(Head(chain), p)
    ELSE chain_evaluate(Tail(chain), p)

\* A chain whose filters drop the term they matched.
chain_after_evaluate_consuming(chain, p) ==
    [k \in 1..Len(chain) |->
        [chain[k] EXCEPT !.blocked =
            LET i == FirstMatch(@, StrLower(IF chain[k].kind = "company"
                                            THEN p.company ELSE p.title))
            IN  IF i = 0 THEN @
                ELSE SubSeq(@, 1, i - 1) \o SubSeq(@, i + 1, Len(@))]]
\* The chain as an evaluate call leaves it: evaluate and _check assign no
\* attribute of the filters (23-33, 47-53, 63-69).
chain_after_evaluate(chain, p) == chain

\* The pipeline's filter: the settings' two lists, the chain built from them
\* (orchestrator.py 40-43) and the evaluate calls made on it, each with its
\* posting and the reason returned.
FilterChain(companies, titles) ==
    [ companies |-> companies, titles |-> titles,
      chain |-> build_chain(companies, titles), log |-> << >> ]

\* No blocked terms are configured.
NoFilterChain == FilterChain(<< >>, << >>)

\* ------------------------------------------------------------ form controls
\* The response tables of responses.yaml, one key each, as the passes read
\* them (populate_visible_fields, field_filler.py 539-544), and the phone
\* number of the settings.
input_field_responses == << << "city", "pune" >> >>
dropdown_responses == << << "sponsorship", "no" >> >>
radio_responses == << << "sponsorship", "yes" >> >>
phone_number == "555"

\* A label's lowercased text, word by word; a number is written digit by
\* digit.
DigitTokens == << "0", "1", "2", "3", "4", "5", "6", "7", "8", "9" >>
IsDigit(t) == \E d \in 1..Len(DigitTokens) : DigitTokens[d] = t
DigitVal(t) == (CHOOSE d \in 1..Len(DigitTokens) : DigitTokens[d] = t) - 1
Digits(n) ==
    IF n < Len(DigitTokens) THEN << DigitTokens[n + 1] >>
    ELSE << DigitTokens[(n \div Len(DigitTokens)) + 1],
            DigitTokens[(n % Len(DigitTokens)) + 1] >>

\* parseInt(digits, 10) (field_filler.py 218, 294)
RECURSIVE parseInt(_)
parseInt(digits) ==
    IF digits = << >> THEN 0
    ELSE parseInt(SubSeq(digits, 1, Len(digits) - 1)) * Len(DigitTokens)
            + DigitVal(Last(digits))

\* The word at position k of a label ("" past its end).
tok(label, k) == IF k \in 1..Len(label) THEN label[k] ELSE ""

\* The rest of the pattern of field_filler.py 216 and 292 after its digits,
\* from position k on: an optional "+", "year" or "years", an optional "of",
\* an optional "relevant", an optional "work", then "experience".
exp_tail(label, k) ==
    LET k1 == IF tok(label, k) = "+" THEN k + 1 ELSE k
        k2 == k1 + 1
        k3 == IF tok(label, k2) = "of" THEN k2 + 1 ELSE k2
        k4 == IF tok(label, k3) = "relevant" THEN k3 + 1 ELSE k3
        k5 == IF tok(label, k4) = "work" THEN k4 + 1 ELSE k4
    IN  /\ tok(label, k1) \in { "year", "years" }
        /\ tok(label, k5) = "experience"

\* labelText.match(/(\d+)\s*(?:\+\s*)?years?\s*...experience/i): the places
\* <<i, j>> where the digits i..j are followed by the rest of the pattern.
exp_matches(label) ==
    { ij \in (1..Len(label)) \X (1..Len(label)) :
        /\ ij[1] <= ij[2]
        /\ \A k \in ij[1]..ij[2] : IsDigit(label[k])
        /\ exp_tail(label, ij[2] + 1) }

\* The required years of the leftmost match, its digits taken greedily; -1
\* when the pattern does not match.
required_years(label) ==
    IF exp_matches(label) = {} THEN -1
    ELSE LET i == CHOOSE i \in { ij[1] : ij \in exp_matches(label) } :
                      \A ij \in exp_matches(label) : i <= ij[1]
             j == CHOOSE j \in { ij[2] : ij \in exp_matches(label) } :
                      << i, j >> \in exp_matches(label)
         IN  parseInt(SubSeq(label, i, j))

\* The value of the first response whose key the label contains; "" when
\* there is none (field_filler.py 99-103, 205-211, 281-287, 359-363).
RECURSIVE match_response(_, _)
match_response(label, responses) ==
    IF responses = << >> THEN ""
    ELSE IF responses[1][1] \in Range(label) THEN responses[1][2]
    ELSE match_response(label, Tail(responses))

\* The entries of a table in the order Python's `responses.items()` gives
\* them, which is the order the script's argument is written in: each key
\* once, where it was first inserted.
dict_items(responses) == responses

\* The keys that are array indices ("0".."9" here) in ascending order.
RECURSIVE index_entries(_, _)
index_entries(responses, d) ==
    IF d > Len(DigitTokens) THEN << >>
    ELSE SelectSeq(responses, LAMBDA e : e[1] = DigitTokens[d])
            \o index_entries(responses, d + 1)

\* Object.entries in the order of insertion for every key.
object_entries_as_inserted(responses) == responses

\* `Object.entries(responses)` in the scripts (field_filler.py 206, 282,
\* 493) on the object adapter.evaluate builds from the dict: the keys that
\* are array indices first, in ascending numeric order, then the other keys
\* in the order of insertion.
object_entries(responses) ==
    index_entries(responses, 1)
        \o SelectSeq(responses, LAMBDA e : ~IsDigit(e[1]))

\* The lookup of the scripts: the first entry of Object.entries whose key
\* the label contains.
match_response_js(label, responses) ==
    match_response(label, object_entries(responses))

\* The smart experience detection of the dropdown and radio scripts
\* (field_filler.py 215-221, 291-297), lowercased as the comparisons with
\* the option texts lowercase it: with no response matching, a label that
\* asks for N years is answered by comparing N with the applicant's years.
experience_answer_strict(label, match_value, applicant_years) ==
    IF match_value # "" THEN match_value
    ELSE IF required_years(label) = -1 THEN ""
    ELSE IF required_years(label) < applicant_years THEN "yes" ELSE "no"
experience_answer(label, match_value, applicant_years) ==
    IF match_value # "" THEN match_value
    ELSE IF required_years(label) = -1 THEN ""
    ELSE IF required_years(label) <= applicant_years THEN "yes" ELSE "no"

\* The option texts of a <select>, its placeholder first, and of a radio
\* group, in document order.
SELECT_PLACEHOLDERS == { "select an option", "select", "--" }
select_options == << "select an option", "yes", "no" >>
radio_options == << "yes", "no" >>

\* The first option the chosen answer matches (field_filler.py 225-234,
\* 303-316, 321-330, 373-397); "" when none does. Of these option texts none
\* is part of another, so they match when they are equal.
RECURSIVE first_option(_, _)
first_option(options, match_value) ==
    IF options = << >> THEN ""
    ELSE IF options[1] = match_value THEN options[1]
    ELSE first_option(Tail(options), match_value)

\* One control of a form page. kind: "input", "textarea", "select" or
\* "radio"; label: the text of its label (of its legend, for a radio group);
\* value: what it holds now ("" when empty, the selected option's text for a
\* <select>, the checked option's text for a radio group); attr: its `value`
\* attribute, which fill() and typing leave as the markup has it; css_phone:
\* one of _PHONE_CSS_CANDIDATES matches it.
Control(kind, label, value, attr, css_phone) ==
    [ kind |-> kind, label |-> label, value |-> value, attr |-> attr,
      css_phone |-> css_phone ]

\* The control holds a value or a selection.
holds_value(c) ==
    IF c.kind = "select" THEN c.value \notin SELECT_PLACEHOLDERS \cup { "" }
    ELSE c.value # ""

\* _fill_phone_if_present (field_filler.py 30-85): the first visible
\* candidate whose value attribute is blank is filled; else the script looks
\* for a label with "phone" whose input's value is blank.
fill_phone_if_present(c, phone) ==
    IF phone = "" \/ c.kind # "input" THEN c
    ELSE IF c.css_phone /\ c.attr = "" THEN [c EXCEPT !.value = phone]
    ELSE IF "phone" \in Range(c.label) /\ c.value = ""
         THEN [c EXCEPT !.value = phone]
    ELSE c

\* _fill_text_inputs on the label of the control (field_filler.py 94-128):
\* an <input> is filled when its value attribute is blank, a <textarea> when
\* its value is.
fill_text_inputs(c, responses) ==
    LET match_value == match_response(c.label, dict_items(responses))
    IN  IF c.label = << >> \/ match_value = "" THEN c
        ELSE IF c.kind = "input" /\ c.attr = "" THEN [c EXCEPT !.value = match_value]
        ELSE IF c.kind = "textarea" /\ c.value = "" THEN [c EXCEPT !.value = match_value]
        ELSE c

\* What the script of _fill_dropdowns answers for a <select> (field_filler.py
\* 170-221): "skip" when it is left alone.
dropdown_answer(c, responses, applicant_years) ==
    IF c.kind # "select" \/ c.label = << >> THEN "skip"
    ELSE IF c.value # "" /\ c.value \notin SELECT_PLACEHOLDERS THEN "skip"
    ELSE IF "country" \in Range(c.label) THEN "skip"
    ELSE experience_answer(c.label, match_response_js(c.label, responses),
                           applicant_years)

\* The script of _fill_dropdowns (field_filler.py 223-251): the option the
\* answer matches, else "Yes" when no answer was found.
fill_dropdowns(c, responses, applicant_years) ==
    LET match_value == dropdown_answer(c, responses, applicant_years)
        opt == first_option(select_options,
                            IF match_value = "" THEN "yes" ELSE match_value)
    IN  IF match_value = "skip" \/ opt = "" THEN c
        ELSE [c EXCEPT !.value = opt]

\* What the script of _fill_radio_buttons answers for a fieldset
\* (field_filler.py 276-299).
radio_answer(c, responses, applicant_years) ==
    IF c.kind # "radio" \/ c.label = << >> THEN "skip"
    ELSE LET match_value == experience_answer(c.label,
                                match_response_js(c.label, responses),
                                applicant_years)
         IN  IF match_value = "" THEN "skip" ELSE match_value

\* The script of _fill_radio_buttons (field_filler.py 301-331): the first
\* option the answer matches is clicked, whatever the group has checked.
fill_radio_buttons_js(c, responses, applicant_years) ==
    LET match_value == radio_answer(c, responses, applicant_years)
        opt == first_option(radio_options, match_value)
    IN  IF match_value = "skip" \/ opt = "" THEN c
        ELSE [c EXCEPT !.value = opt]

\* The fieldset loop of _fill_radio_buttons (field_filler.py 340-397): a
\* group with a checked radio is left alone.
fill_radio_buttons_fallback(c, responses) ==
    LET match_value == match_response(c.label, dict_items(responses))
        opt == first_option(radio_options, match_value)
    IN  IF c.kind # "radio" \/ c.label = << >> \/ match_value = "" THEN c
        ELSE IF c.value # "" \/ opt = "" THEN c
        ELSE [c EXCEPT !.value = opt]

\* _fill_fields_via_js (field_filler.py 465-510): the input, textarea or
\* select of a label is set when its value is blank (a placeholder option's
\* value is); the labels of a radio group are those of its options, whose
\* inputs have a value.
fill_fields_via_js(c, input_responses, phone) ==
    LET match_value == match_response_js(c.label, input_responses)
        opt == first_option(select_options, match_value)
    IN  IF c.kind = "radio" \/ c.label = << >> THEN c
        ELSE IF holds_value(c) THEN c
        ELSE IF "phone" \in Range(c.label) /\ c.kind # "select" /\ phone # ""
             THEN [c EXCEPT !.value = phone]
        ELSE IF match_value = "" THEN c
        ELSE IF c.kind = "select"
             THEN IF opt = "" THEN c ELSE [c EXCEPT !.value = opt]
        ELSE [c EXCEPT !.value = match_value]

\* ------------------------------------------------------------ resume picker
\* _try_file_upload (resume_picker.py 48-80): set_input_files on the inputs
\* the selectors find, in order, until one does not raise (`inputs`: whether
\* each accepts the file); then the hidden input the script reports
\* (`hidden`: "none", "accepts", or "raises").
try_file_upload(inputs, hidden) ==
    (\E i \in 1..Len(inputs) : inputs[i]) \/ hidden = "accepts"

\* The card index clamped to the last card.
card_index_to_last(preferred_index, n) ==
    LET idx == IF preferred_index - 1 > 0 THEN preferred_index - 1 ELSE 0
    IN  IF idx >= n THEN n - 1 ELSE idx

\* `idx = max(0, preferred_index - 1); if idx >= len(resumes): idx = 0`
\* (resume_picker.py 94-96)
card_index(preferred_index, n) ==
    LET idx == IF preferred_index - 1 > 0 THEN preferred_index - 1 ELSE 0
    IN  IF idx >= n THEN 0 ELSE idx

\* _try_card_selection (resume_picker.py 83-107): the 0-based indices of the
\* cards click() was called on.  Nothing is done without the required-upload
\* marker or without cards; the aria-label of the target is read first, and
\* an exception of the read or of the click is logged.
try_card_selection(marker, n, preferred_index, read_raises) ==
    IF ~marker \/ n = 0 THEN << >>
    ELSE IF read_raises THEN << >>
    ELSE << card_index(preferred_index, n) >>

\* select_resume (resume_picker.py 25-45) on a form page: the settings'
\* path and index, whether the file exists, the file inputs, the marker and
\* the number of cards; whether the file was uploaded and the cards click()
\* was called on.
ResumeCall(path, exists, inputs, hidden, marker, cards, preferred_index, read_raises) ==
    [ path |-> path, exists |-> exists, inputs |-> inputs, hidden |-> hidden,
      marker |-> marker, cards |-> cards, preferred_index |-> preferred_index,
      read_raises |-> read_raises,
      called |-> FALSE, uploaded |-> FALSE, clicks |-> << >> ]
NoResumeCall == ResumeCall("", FALSE, << >>, "none", FALSE, 0, 1, FALSE)

select_resume(r) ==
    LET uploaded == /\ r.path # ""
                    /\ r.exists
                    /\ try_file_upload(r.inputs, r.hidden)
    IN  [r EXCEPT !.called = TRUE,
                  !.uploaded = uploaded,
                  !.clicks = IF uploaded THEN << >>
                             ELSE try_card_selection(r.marker, r.cards,
                                                     r.preferred_index, r.read_raises)]

\* The passes that look a label up in a response table, and the answer each
\* finds for a label ("" when no key matches): the loops of
\* _fill_text_inputs (field_filler.py 99-103) and of the radio fallback
\* (359-363) go through responses.items(), the scripts of _fill_dropdowns
\* (205-211), _fill_radio_buttons (281-287) and _fill_fields_via_js (493-509)
\* through Object.entries(responses).
LOOKUP_PASSES == { "text_inputs", "dropdowns", "radio_js", "radio_fallback",
                   "fields_via_js" }
pass_match(pass, label, responses) ==
    IF pass \in { "text_inputs", "radio_fallback" }
    THEN match_response(label, dict_items(responses))
    ELSE match_response_js(label, responses)

\* The keys of a response table as load_responses leaves them (settings.py
\* 106-108: strings, lowercased, each once), with the answer of each.
ResponseEntries == { << "city", "pune" >>, << "experience", "yes" >>, << "5", "no" >> }
ResponseTables ==
    { t \in UNION { [1..n -> ResponseEntries] : n \in 0..MaxKeys } :
        \A i, j \in 1..Len(t) : i # j => t[i][1] # t[j][1] }

\* The lowercased texts of the labels looked up.
LookupLabels ==
    { << "city" >>, << "5", "years", "experience" >>, << "notice", "period" >>,
      << "experience", "in", "city" >> }

\* A label looked up in a table by a pass ("none": not yet).
Lookup(responses, label, pass, answer) ==
    [ responses |-> responses, label |-> label, pass |-> pass, answer |-> answer ]
NoLookup == Lookup(<< >>, << >>, "none", "")

\* The passes of populate_visible_fields in their order (field_filler.py
\* 534-544).
PASSES == << "scroll", "phone", "text_inputs", "dropdowns", "radio_js",
             "radio_fallback", "fields_via_js" >>

\* The numbers of years a label asks for: those around the applicant's, and
\* one of two digits.
RequiredYears == 0..(MaxYears + 1) \cup { 10 + MaxYears }

\* The labels of the control: none, one with a key of each response table,
\* a phone label, one no table knows, and for each number of years two
\* labels the pattern matches, one it does not, and one that also holds a
\* response key. asks: the years a label of the pattern's form asks for
\* (-1: it is not of that form).
ControlLabels ==
    { [text |-> t, asks |-> -1] :
        t \in { << >>, << "city" >>, << "phone" >>, << "sponsorship" >>,
                << "notice", "period" >> } }
    \cup { [text |-> Digits(n) \o << "years", "experience" >>, asks |-> n] :
              n \in RequiredYears }
    \cup { [text |-> << "have" >> \o Digits(n)
                        \o << "+", "years", "of", "relevant", "work", "experience" >>,
             asks |-> n] : n \in RequiredYears }
    \cup { [text |-> Digits(n) \o << "years", "in", "role" >>, asks |-> -1] :
              n \in RequiredYears }
    \cup { [text |-> << "sponsorship" >> \o Digits(n) \o << "year", "experience" >>,
             asks |-> n] : n \in RequiredYears }

\* The controls a form page shows: an <input> that is empty, or holds a
\* value its markup has or has not; a <textarea>; a <select> on its
\* placeholder or on an option; a radio group with nothing or an option
\* checked.
Controls ==
    { Control("input", l.text, v[1], v[2], p) :
        l \in ControlLabels,
        v \in { << "", "" >>, << "old", "old" >>, << "old", "" >> },
        p \in BOOLEAN }
    \cup { Control("textarea", l.text, v, "", FALSE) :
              l \in ControlLabels, v \in { "", "old" } }
    \cup { Control("select", l.text, v, "", FALSE) :
              l \in ControlLabels, v \in Range(select_options) }
    \cup { Control("radio", l.text, v, "", FALSE) :
              l \in ControlLabels, v \in { "" } \cup Range(radio_options) }

\* A form page with one control, under populate_visible_fields: the
\* applicant's years, the control, the control as the running call found it,
\* the number of the call, the pass it is at (Len(PASSES) + 1: returned; 0:
\* raised), and the answer the dropdown or radio script of the running call
\* chose for it ("not_run": the script has not run to its end; "skip": it
\* left the control alone).
FormPage(c, years) ==
    [ control |-> c, found |-> c, years |-> years, call |-> 1, pass |-> 1,
      answer |-> "not_run" ]

\* No form page is shown.
NoFormPage == FormPage(Control("input", << >>, "", "", FALSE), 0)

\* The years the label of the control asks for (-1: it is not of the
\* pattern's form).
asks(c) ==
    LET ls == { l \in ControlLabels : l.text = c.label }
    IN  (CHOOSE l \in ls : TRUE).asks

\* -------------------------------------------------------- session manager
\* _LOGGED_IN_SELECTORS (session_manager.py 19-26)
LOGGED_IN_SELECTORS ==
    { "div.feed-identity-module", "div.global-nav__me", "img.global-nav__me-photo",
      "identity_welcome_message", "nav.global-nav", "input.Search" }

\* The storage-state file: 0 when it does not exist, else the number of the
\* content it holds (1: left by an earlier run; k + 1: the k-th write of
\* this run).
state_path_exists_always(f) == TRUE

\* state_path.exists()
state_path_exists(f) == f # 0

\* The awaits of _ensure_english's try block in the order the code reaches
\* them (session_manager.py 135-137, 141, 155, 187-189, 193): the language
\* page, the test for English, the footer selector, the settings url, the
\* save button.
ENGLISH_CALLS ==
    << "navigate_languages", "evaluate_is_english", "evaluate_change",
       "navigate_select_language", "evaluate_save" >>

\* The calls _ensure_english makes when none raises: it returns after the
\* test when the page is in English (session_manager.py 149-151), after the
\* footer selector when that changed the language (183-185), else it goes to
\* the settings url (186-211).
english_calls(is_english, changed) ==
    IF is_english THEN SubSeq(ENGLISH_CALLS, 1, 2)
    ELSE IF changed THEN SubSeq(ENGLISH_CALLS, 1, 3)
    ELSE ENGLISH_CALLS

\* The handler letting the exception out.
english_handler_propagating(exc) == "raise"

\* `except Exception as exc: logger.warning(...)` around the whole body
\* (session_manager.py 212-213).
english_handler(exc) == "continue"

\* One call of _ensure_english: the calls made, the exception raised inside
\* (failed_at names the call that raises, 0 or beyond the last: none) and how
\* the call ends.
ensure_english(is_english, changed, failed_at) ==
    LET planned == english_calls(is_english, changed)
        fails == failed_at \in 1..Len(planned)
        exc == IF fails THEN "Error" ELSE "none"
    IN  [ ran |-> TRUE,
          calls |-> IF fails THEN SubSeq(planned, 1, failed_at) ELSE planned,
          exc |-> exc,
          result |-> IF fails /\ english_handler(exc) = "raise" THEN "raised"
                     ELSE "returned" ]

\* _ensure_english not called.
NoEnglish == [ ran |-> FALSE, calls |-> << >>, exc |-> "none", result |-> "not_run" ]

\* A SessionManager on which no call was made yet.
SessionManager(email, password, file) ==
    [ email |-> email, password |-> password, state_file |-> file,
      call |-> "none", at |-> "idle", file_at_call |-> file,
      ops |-> << >>, polls |-> << >>, verified |-> "not_run",
      exc |-> "none", saved |-> 0, written |-> 0, calls |-> 0,
      english |-> NoEnglish ]

\* The test of _verify_logged_in and of each poll of _perform_login:
\* "/feed" in the page's url, or one of the markers found on the page.
logged_in(url_has_feed, markers) ==
    url_has_feed \/ \E sel \in LOGGED_IN_SELECTORS : sel \in markers

\* Where ensure_authenticated continues after _verify_logged_in, with the
\* storage state saved after a successful verification too.
after_verification_saving(ok) == IF ok THEN "logged_in" ELSE "perform_login"

\* Where ensure_authenticated continues after _verify_logged_in
\* (session_manager.py 54-59): _ensure_english and return, or the login.
after_verification(ok) == IF ok THEN "returned" ELSE "perform_login"

\* `for attempt in range(18)` entered with n polls made, one poll too many.
more_polls_inclusive(n) == n <= LOGIN_POLLS

\* `for attempt in range(18)` (session_manager.py 103) with n polls made.
more_polls(n) == n < LOGIN_POLLS

\* state_path.unlink() leaving the file in place.
unlink_keeps(f) == f

\* state_path.unlink()
unlink(f) == 0

\* adapter.save_storage_state (playwright_adapter.py 149-153): nothing is
\* written without a browser context; else the file gets a new content.
save_storage_state(context, f, written) ==
    IF context = "None" THEN f ELSE written + 2

\* An exception leaves the call in progress.
SmRaises(s, e) == [s EXCEPT !.at = "raised", !.exc = e]

NoPosting == JobPosting(0, <<>>, <<>>)
\* What _extract_posting_details leaves when nothing is read from the page.
NoDetails == [title |-> <<>>, company |-> <<>>]
\* No _process_single_posting call yet.
NoInv == [job |-> 0, recs |-> 0, exit |-> "none", res |-> NoResult,
          inspected |-> FALSE, details |-> NoDetails, lookup |-> "not_run",
          recovery |-> << >>]
\* A _process_single_posting call that has just started for job j.
StartedInv(j) == [job |-> j, recs |-> 0, exit |-> "running", res |-> NoResult,
                  inspected |-> FALSE, details |-> NoDetails, lookup |-> "not_run",
                  recovery |-> << >>]

Init ==
    /\ settings \in [simulation_mode : BOOLEAN,
                     max_submissions_per_session : 0..MaxCap]
    /\ pc = "launch"
    /\ urlIdx = 1
    /\ attempt = 1
    /\ jobs = <<>>
    /\ jobIdx = 1
    /\ visited = <<>>
    /\ posting = NoPosting
    /\ metrics = [total_inspected |-> 0, total_submitted |-> 0, total_filtered |-> 0,
                  total_failed |-> 0, total_skipped |-> 0, finalized |-> FALSE]
    /\ tracker = [postings |-> <<>>, submissions |-> <<>>, pending |-> <<>>,
                  session |-> "none"]
    /\ launched = FALSE
    /\ closeLog = <<>>
    /\ runExc = "none"
    /\ fpc = "idle"
    /\ step = 0
    /\ fres = NoResult
    /\ submitClicked = FALSE
    /\ searchLog = <<>>
    /\ reauthLog = <<>>
    /\ expiredLog = <<>>
    /\ inv = NoInv
    /\ capRaised = FALSE
    /\ exhaustedAt = 0
    /\ interrupt = "none"
    /\ discovered = 0
    /\ recordCalls = 0
    /\ sm = SessionManager("e", "p", 0)
    /\ ad = PlaywrightAdapter("open")
    /\ ff = FieldFiller(0, 0)
    /\ fm = NoFormPage
    /\ fc = NoFilterChain
    /\ db = Database
    /\ ms = NoIteration
    /\ sf = NoSubmitFinal
    /\ rt = NoLookup
    /\ rp = NoResumeCall

Inc(m, f) == [m EXCEPT ![f] = @ + 1]

\* ------------------------------------------------- control-flow transfers
\* The locals of a frame are dropped when the frame is left.
LeaveSearch == jobs' = <<>> /\ jobIdx' = 1 /\ visited' = <<>>
LeavePosting == posting' = NoPosting
FormIdle ==
    /\ fpc' = "idle" /\ step' = 0 /\ fres' = NoResult /\ submitClicked' = FALSE
    /\ ms' = NoIteration /\ sf' = NoSubmitFinal

\* run()'s for loop takes the next url.
GoNextUrl == pc' = "url_loop" /\ urlIdx' = urlIdx + 1 /\ attempt' = 1 /\ LeaveSearch

\* _process_search's for loop takes the next posting.
GoNextJob == pc' = "job_loop" /\ jobIdx' = jobIdx + 1
                /\ UNCHANGED << urlIdx, attempt, jobs, visited >>

\* The position run() continues at when `exc` leaves its try block: the
\* finally clause (orchestrator.py 94-96).
run_on_exception(exc) == "closing"

\* metrics.finalize(), tracker.end_session() (orchestrator.py 91-92): no
\* await, so they run with the step that leaves the for loop.
finalize(m) == [m EXCEPT !.finalized = TRUE]
end_session(t) == [t EXCEPT !.session = "ended"]

\* The for loop of run() is left normally (exhausted, or break): finalize,
\* then the finally clause.
GoFinalize ==
    /\ pc' = "closing"
    /\ attempt' = 1
    /\ LeaveSearch
    /\ UNCHANGED urlIdx
    /\ metrics' = finalize(metrics)
    /\ tracker' = end_session(tracker)

\* run()'s handlers for what _run_with_reauth raises (orchestrator.py 85-89):
\* CapReachedError breaks the loop, any other Exception moves to the next url.
run_handler(exc) == IF exc = "CapReachedError" THEN "break" ELSE "next_url"

RunHandles(exc) ==
    IF run_handler(exc) = "break" THEN GoFinalize
    ELSE GoNextUrl /\ UNCHANGED << metrics, tracker >>

\* The handler giving up at the first SessionExpiredError.
reauth_exhausted_late(att) == att > MAX_REAUTH_ATTEMPTS
reauth_exhausted_at_once(att) == att >= 1

\* _run_with_reauth's handler: re-raise on the last attempt.
reauth_exhausted(att) == att >= MAX_REAUTH_ATTEMPTS

\* A SessionExpiredError raised inside _process_search: past the per-posting
\* and per-search handlers into _run_with_reauth (orchestrator.py 105-114).
OnSessionExpired ==
    /\ Len(expiredLog) < MaxExpiries
    /\ expiredLog' = Append(expiredLog, urlIdx)
    /\ UNCHANGED reauthLog
    /\ IF reauth_exhausted(attempt)
       THEN /\ exhaustedAt' = IF exhaustedAt = 0 THEN urlIdx ELSE exhaustedAt
            /\ RunHandles("SessionExpiredError")
       ELSE /\ pc' = "reauth"
            /\ LeaveSearch
            /\ UNCHANGED << urlIdx, attempt, exhaustedAt, metrics, tracker >>

\* ------------------------------------------------------------------ run()
\* adapter.launch(), before the try block (orchestrator.py 57-61).
Launch ==
    /\ pc = "launch"
    /\ \E ok \in BOOLEAN :
         IF ok THEN /\ launched' = TRUE
                    /\ pc' = "ensure_authenticated"
                    /\ UNCHANGED runExc
         ELSE /\ pc' = "done"
              /\ runExc' = "BrowserLaunchError"
              /\ UNCHANGED launched
    /\ UNCHANGED << offstage, urlIdx, attempt, jobs, jobIdx, visited, posting, inv,
                    closeLog, interrupt, capRaised, discovered >>
    /\ UNCHANGED << formVars, store, authLog >>

\* ensure_authenticated(), then start_session and build_search_urls
\* (orchestrator.py 64-80).
EnsureAuthenticated ==
    /\ pc = "ensure_authenticated"
    /\ \E ok \in BOOLEAN :
         IF ok THEN /\ tracker' = [tracker EXCEPT !.session = "started"]
                    /\ pc' = "url_loop"
                    /\ UNCHANGED runExc
         ELSE /\ pc' = run_on_exception("AuthenticationError")
              /\ runExc' = "AuthenticationError"
              /\ UNCHANGED tracker
    /\ UNCHANGED << offstage, urlIdx, attempt, jobs, jobIdx, visited, posting, inv,
                    metrics, recordCalls, launched, closeLog, interrupt, capRaised,
                    discovered >>
    /\ UNCHANGED << formVars, authLog >>

\* The for loop over the urls: the next url enters _run_with_reauth.
NextUrl ==
    /\ pc = "url_loop"
    /\ urlIdx <= NumUrls
    /\ pc' = "scrape"
    /\ UNCHANGED << offstage, urlIdx, attempt, jobs, jobIdx, visited, posting, inv,
                    capRaised, discovered >>
    /\ UNCHANGED << formVars, store, authLog, exitVars >>

\* The for loop is exhausted.
UrlsDone ==
    /\ pc = "url_loop"
    /\ urlIdx > NumUrls
    /\ GoFinalize
    /\ UNCHANGED << offstage, posting, inv, capRaised, discovered, recordCalls >>
    /\ UNCHANGED << formVars, authLog, exitVars >>

\* A wrapper that goes on in _process_search's loop over the job ids.
retry_entry_at_posting == "job_loop"
\* Where the next iteration of _run_with_reauth's loop enters the search:
\* `await coro_fn(*args)` calls _process_search from its first line, the
\* scrape (orchestrator.py 102-104, 118).
retry_entry == "scrape"

\* session_mgr.reauthenticate() (orchestrator.py 114): on success the loop of
\* _run_with_reauth calls _process_search again; its AuthenticationError
\* leaves _run_with_reauth and is handled by run().
Reauthenticate ==
    /\ pc = "reauth"
    /\ \E ok \in BOOLEAN :
         /\ reauthLog' = Append(reauthLog, [url |-> urlIdx, ok |-> ok])
         /\ IF ok THEN /\ attempt' = attempt + 1
                       /\ pc' = retry_entry
                       /\ UNCHANGED << urlIdx, jobs, jobIdx, visited, exhaustedAt,
                                       metrics, tracker >>
            ELSE /\ exhaustedAt' = IF exhaustedAt = 0 THEN urlIdx ELSE exhaustedAt
                 /\ RunHandles("AuthenticationError")
    /\ UNCHANGED << offstage, posting, inv, capRaised, discovered, recordCalls,
                    searchLog, expiredLog >>
    /\ UNCHANGED << formVars, exitVars >>

\* -------------------------------------------------------- _process_search
\* scrape_search_results (listing_scraper.py 59-116) as _process_search calls
\* it: an auth redirect raises SessionExpiredError, a failed page load raises
\* to run(), otherwise a deduplicated list of job ids comes back; an empty
\* list makes _process_search return.
ScrapeSearchResults ==
    /\ pc = "scrape"
    /\ searchLog' = Append(searchLog, urlIdx)
    /\ \/ /\ OnSessionExpired
          /\ UNCHANGED discovered
       \/ /\ RunHandles("Exception")
          /\ UNCHANGED << discovered, reauthLog, expiredLog, exhaustedAt >>
       \/ \E ids \in JobLists(MaxJobs) :
            /\ discovered + Len(ids) <= MaxDiscovered
            /\ discovered' = discovered + Len(ids)
            /\ IF ids = <<>>
               THEN GoNextUrl
               ELSE /\ pc' = "job_loop"
                    /\ jobs' = ids
                    /\ jobIdx' = 1
                    /\ visited' = <<>>
                    /\ UNCHANGED << urlIdx, attempt >>
            /\ UNCHANGED << metrics, tracker, reauthLog, expiredLog, exhaustedAt >>
    /\ UNCHANGED << offstage, posting, inv, capRaised, recordCalls >>
    /\ UNCHANGED << formVars, exitVars >>

\* _check_cap raising only once the cap is exceeded.
check_cap_when_exceeded(cap, submitted) == cap > 0 /\ submitted > cap

\* _check_cap (orchestrator.py 358-361)
check_cap(cap, submitted) == cap > 0 /\ submitted >= cap

CapReached ==
    check_cap(settings.max_submissions_per_session, metrics.total_submitted)

\* The for loop over job_ids is exhausted: _process_search and
\* _run_with_reauth return, run() takes the next url.
SearchDone ==
    /\ pc = "job_loop"
    /\ jobIdx > Len(jobs)
    /\ GoNextUrl
    /\ inv' = NoInv
    /\ UNCHANGED << offstage, posting, capRaised, discovered >>
    /\ UNCHANGED << formVars, store, authLog, exitVars >>

\* _check_cap raises CapReachedError: through _process_search and
\* _run_with_reauth (not a SessionExpiredError) to run(), which breaks out of
\* the loop, finalizes and falls into the finally clause.
RaiseCapReached ==
    /\ pc = "job_loop"
    /\ jobIdx <= Len(jobs)
    /\ CapReached
    /\ capRaised' = TRUE
    /\ RunHandles("CapReachedError")
    /\ inv' = NoInv
    /\ UNCHANGED << offstage, posting, discovered, recordCalls >>
    /\ UNCHANGED << formVars, authLog, exitVars >>

\* The cap is not reached: _process_single_posting starts for the posting.
StartPosting ==
    /\ pc = "job_loop"
    /\ jobIdx <= Len(jobs)
    /\ ~CapReached
    /\ inv' = StartedInv(jobs[jobIdx])
    /\ pc' = "navigate"
    /\ UNCHANGED << offstage, urlIdx, attempt, jobs, jobIdx, visited, posting,
                    capRaised, discovered >>
    /\ UNCHANGED << formVars, store, authLog, exitVars >>

\* A _process_search that logs whatever _process_single_posting raises.
search_handler_absorbing(exc) == "continue"
\* The except clauses of _process_search around _process_single_posting
\* (orchestrator.py 127-132): CapReachedError and SessionExpiredError are
\* raised again, any other Exception is logged and the loop continues.
search_handler(exc) ==
    IF exc \in { "CapReachedError", "SessionExpiredError" } THEN "raise"
    ELSE "continue"

\* ------------------------------------------------ _process_single_posting
\* _process_single_posting ends by a return, or by an exception that
\* _process_search's `except Exception` absorbs (orchestrator.py 127-132):
\* on to the next posting.
PostingEnds(ended) ==
    /\ inv' = ended
    /\ LeavePosting
    /\ GoNextJob

\* _record (orchestrator.py 339-356) followed by the return.
RecordAndReturn(p, outcome, reason, counter) ==
    /\ tracker' = record(tracker, p, outcome, reason)
    /\ recordCalls' = recordCalls + 1
    /\ metrics' = Inc(metrics, counter)
    /\ inv' = [inv EXCEPT !.recs = @ + 1, !.exit = "return"]
    /\ LeavePosting
    /\ GoNextJob

\* The ensure_valid_page calls up to the page load (orchestrator.py 137,
\* 143-146): one before the first navigate, one more when it raised.
navigate_recoveries(first_ok) ==
    IF first_ok THEN << "before" >> ELSE << "before", "navigate_exception" >>

\* The finally clause after the form attempt (orchestrator.py 230-234):
\* close_extra_pages, ensure_valid_page.
posting_finally(recovery) == Append(recovery, "after")

\* ensure_valid_page and navigate, with one recovery (orchestrator.py
\* 137-150): when both loads fail the posting is skipped with a log line.
Navigate ==
    /\ pc = "navigate"
    /\ \E first_ok, retry_ok \in BOOLEAN :
         LET rec == navigate_recoveries(first_ok)
         IN  IF first_ok \/ retry_ok
             THEN /\ pc' = "inspect"
                  /\ visited' = Append(visited, jobs[jobIdx])
                  /\ inv' = [inv EXCEPT !.recovery = rec]
                  /\ UNCHANGED << urlIdx, attempt, jobs, jobIdx, posting >>
             ELSE PostingEnds([inv EXCEPT !.exit = "return", !.recovery = rec])
    /\ UNCHANGED << offstage, capRaised, discovered >>
    /\ UNCHANGED << formVars, store, authLog, exitVars >>

\* What _extract_posting_details yields; its exception leaves the posting
\* with empty title and company (orchestrator.py 155-159).
ExtractedDetails ==
    { [title |-> t, company |-> c] : t \in Titles \ {<<>>}, c \in Companies \ {<<>>} }
        \cup { [title |-> <<>>, company |-> <<>>] }

\* is_auth_redirect, detail extraction, the inspected counter and the filter
\* (orchestrator.py 152-168).
Inspect ==
    /\ pc = "inspect"
    /\ \/ /\ IF search_handler("SessionExpiredError") = "raise"
             THEN /\ OnSessionExpired
                  /\ inv' = [inv EXCEPT !.exit = "SessionExpiredError"]
                  /\ LeavePosting
             ELSE /\ Len(expiredLog) < MaxExpiries
                  /\ expiredLog' = Append(expiredLog, urlIdx)
                  /\ PostingEnds([inv EXCEPT !.exit = "SessionExpiredError"])
                  /\ UNCHANGED << metrics, tracker, reauthLog, exhaustedAt >>
          /\ UNCHANGED recordCalls
       \/ \E d \in ExtractedDetails :
            LET p == JobPosting(jobs[jobIdx], d.title, d.company)
                m == Inc(metrics, "total_inspected")
                reason == IF build_filter_chain # <<>> THEN evaluate(p) ELSE NoReason
            IN  /\ IF reason # NoReason
                   THEN /\ tracker' = record(tracker, p, "skipped_blacklist", reason)
                        /\ recordCalls' = recordCalls + 1
                        /\ metrics' = Inc(m, "total_filtered")
                        /\ inv' = [inv EXCEPT !.recs = @ + 1, !.exit = "return",
                                               !.inspected = TRUE, !.details = d]
                        /\ LeavePosting
                        /\ GoNextJob
                   ELSE /\ metrics' = m
                        /\ posting' = p
                        /\ pc' = "find_easy_apply"
                        /\ inv' = [inv EXCEPT !.inspected = TRUE, !.details = d]
                        /\ UNCHANGED << urlIdx, attempt, jobs, jobIdx, visited,
                                        tracker, recordCalls >>
                /\ UNCHANGED << reauthLog, expiredLog, exhaustedAt >>
    /\ UNCHANGED << offstage, searchLog, capRaised, discovered >>
    /\ UNCHANGED << formVars, exitVars >>

\* The posting page as _find_easy_apply_element reads it: what the script
\* scanning the a[href*="/apply/"] links gives, whether the query for such a
\* link finds one within its timeout, the <button> elements in DOM order
\* ("stale": inner_text raises, the text counts as ""), and whether the
\* text='Easy Apply' query finds an element.
ButtonTexts == { "easy apply", "other", "stale" }

RECURSIVE ButtonLists(_)
ButtonLists(n) ==
    IF n = 0 THEN { << >> }
    ELSE ButtonLists(n - 1)
            \cup { Append(l, b) : l \in { k \in ButtonLists(n - 1) : Len(k) = n - 1 },
                                  b \in ButtonTexts }

PostingPages ==
    [ script : { "true", "false", "raises" }, link : BOOLEAN,
      buttons : ButtonLists(MaxButtons), text : BOOLEAN ]

\* _find_easy_apply_element (orchestrator.py 238-273): the element returned
\* ("link", "button", "text"), "None", or "Exception" when the script
\* evaluation raises.
find_easy_apply_element(page) ==
    IF page.script = "raises" THEN "Exception"
    ELSE IF page.script = "true" /\ page.link THEN "link"
    ELSE IF \E i \in 1..Len(page.buttons) : page.buttons[i] = "easy apply"
         THEN "button"
    ELSE IF page.text THEN "text"
    ELSE "None"

\* The test on the lookup's result never taken.
easy_apply_missing_never(el) == FALSE

\* `if apply_el is None` (orchestrator.py 172)
easy_apply_missing(el) == el = "None"

\* _find_easy_apply_element and the test on its result (orchestrator.py
\* 171-175): on to the click, the "skipped_duplicate" record, or the
\* exception of the script evaluation, which leaves _process_single_posting
\* and is absorbed by _process_search.
FindEasyApply ==
    /\ pc = "find_easy_apply"
    /\ \E page \in PostingPages :
         LET el == find_easy_apply_element(page)
         IN  IF el = "Exception"
             THEN /\ PostingEnds([inv EXCEPT !.exit = "Exception", !.lookup = el])
                  /\ UNCHANGED store
             ELSE IF easy_apply_missing(el)
             THEN /\ tracker' = record(tracker, posting, "skipped_duplicate", NoReason)
                  /\ recordCalls' = recordCalls + 1
                  /\ metrics' = Inc(metrics, "total_skipped")
                  /\ inv' = [inv EXCEPT !.recs = @ + 1, !.exit = "return",
                                        !.lookup = el]
                  /\ LeavePosting
                  /\ GoNextJob
             ELSE /\ pc' = "click_easy_apply"
                  /\ inv' = [inv EXCEPT !.lookup = IF el = "None" THEN el ELSE "element"]
                  /\ UNCHANGED << urlIdx, attempt, jobs, jobIdx, visited, posting >>
                  /\ UNCHANGED store
    /\ UNCHANGED << offstage, capRaised, discovered >>
    /\ UNCHANGED << formVars, authLog, exitVars >>

\* The script click and the forced click on Easy Apply (orchestrator.py
\* 180-208); when one lands the form handler is constructed.
ClickEasyApply ==
    /\ pc = "click_easy_apply"
    /\ \E ok \in BOOLEAN :
         IF ok THEN /\ pc' = "attempt"
                    /\ UNCHANGED << urlIdx, attempt, jobs, jobIdx, visited, posting, inv >>
                    /\ UNCHANGED store
         ELSE /\ RecordAndReturn(posting, "failed",
                                 Reason("Could not click Easy Apply", <<>>),
                                 "total_failed")
    /\ UNCHANGED << offstage, capRaised, discovered >>
    /\ UNCHANGED << formVars, authLog, exitVars >>

\* ----------------------------------------------------- attempt_submission
pipelineIdle == << offstage, pc, urlIdx, attempt, jobs, jobIdx, visited, posting,
                   metrics, tracker, launched, closeLog, runExc, searchLog,
                   reauthLog, expiredLog, inv, capRaised, exhaustedAt, interrupt,
                   discovered, recordCalls >>

\* attempt_submission ends with result r.
FormEnds(r) == fres' = r /\ fpc' = "done"

\* _submit_final on the Submit control found.
SubmitFinal ==
    /\ \E c1, c2, c3 \in BOOLEAN :
         /\ FormEnds(submit_final(settings.simulation_mode, c1, c2, c3))
         /\ sf' = SubmitFinalCall(submit_strategies(settings.simulation_mode,
                                                    c1, c2, c3))
    /\ submitClicked' = (submitClicked \/ submit_final_clicks(settings.simulation_mode))
    /\ UNCHANGED step

\* A click on a Review or Next control: the script click, else the forced
\* click, whose exception leaves attempt_submission.
ClickThen(next) ==
    \E ok \in BOOLEAN :
        IF ok THEN fpc' = next /\ UNCHANGED fres
        ELSE FormEnds(Raised("Exception", ClickError))

\* The first page (form_handler.py 82-101): resume, fields, the single-page
\* fast path, else a click on Next when there is one.
AttemptFirstPage ==
    /\ fpc = "first_page"
    /\ \E page \in Pages :
         IF find_submit_with_scroll(page) THEN SubmitFinal
         ELSE /\ IF "next" \in page.sel THEN ClickThen("second_check")
                 ELSE fpc' = "second_check" /\ UNCHANGED fres
              /\ UNCHANGED << step, submitClicked, sf >>
    /\ UNCHANGED << ms, pipelineIdle >>

\* The second look for Submit (form_handler.py 103-110), else the
\* multi-step path.
AttemptSecondCheck ==
    /\ fpc = "second_check"
    /\ \E page \in Pages :
         IF find_submit_with_scroll(page) THEN SubmitFinal
         ELSE /\ fpc' = "multi_step"
              /\ UNCHANGED << step, fres, submitClicked, sf >>
    /\ UNCHANGED << ms, pipelineIdle >>

\* One iteration of _navigate_multi_step's loop (form_handler.py 303-346):
\* Submit, else Review, else Next, else the script fallback, else the end.
\* A failed script evaluation in the fallback counts as no button.
MultiStepIteration ==
    /\ fpc = "multi_step"
    /\ loop_continues(step)
    /\ \E page \in Pages :
         IF find_submit_with_scroll(page)
         THEN /\ SubmitFinal
              /\ ms' = Iteration(page, SubSeq(AFFORDANCES, 1, 1), << "submit" >>,
                                 "terminal")
         ELSE IF "review" \in page.sel \/ "next" \in page.sel
         THEN /\ ClickThen("multi_step")
              /\ step' = IF fpc' = "multi_step" THEN step + 1 ELSE step
              /\ ms' = LET n == IF "review" \in page.sel THEN 2 ELSE 3
                       IN  Iteration(page, SubSeq(AFFORDANCES, 1, n),
                                     << AFFORDANCES[n] >>,
                                     IF fpc' = "multi_step" THEN "continue"
                                     ELSE "raised")
              /\ UNCHANGED << submitClicked, sf >>
         ELSE IF js_click_bottom_button(page)
         THEN /\ step' = step + 1
              /\ submitClicked' = (submitClicked \/ js_bottom_button(page) = "submit")
              /\ ms' = Iteration(page, AFFORDANCES, << "fallback" >>, "continue")
              /\ UNCHANGED << fpc, fres, sf >>
         ELSE /\ FormEnds(no_submit_result(settings.simulation_mode, FSE_NoButton))
              /\ ms' = Iteration(page, AFFORDANCES, << >>, "no_control")
              /\ UNCHANGED << step, submitClicked, sf >>
    /\ UNCHANGED pipelineIdle

\* The loop ran out of iterations (form_handler.py 348-353).
MultiStepExhausted ==
    /\ fpc = "multi_step"
    /\ ~loop_continues(step)
    /\ FormEnds(no_submit_result(settings.simulation_mode, FSE_MaxSteps))
    /\ UNCHANGED << step, submitClicked, ms, sf >>
    /\ UNCHANGED pipelineIdle

\* The outcome _process_single_posting records for what attempt_submission
\* did, and the counter it raises (orchestrator.py 211-229).
handler_outcome(r) == IF r.kind = "return" THEN r.value ELSE "failed"
handler_reason(r) == IF r.kind = "return" THEN NoReason ELSE Reason(r.value, <<>>)
\* The counters with the two except clauses leaving total_failed alone.
handler_metrics_success_only(m, r) ==
    IF r.kind = "return" /\ r.value = "succeeded" THEN Inc(m, "total_submitted")
    ELSE m

\* The counters with a "dry_run" outcome counted as a submission.
handler_metrics_counting_dry_run(m, r) ==
    IF r.kind # "return" THEN Inc(m, "total_failed")
    ELSE IF r.value \in { "succeeded", "dry_run" } THEN Inc(m, "total_submitted")
    ELSE m

handler_metrics(m, r) ==
    IF r.kind # "return" THEN Inc(m, "total_failed")
    ELSE IF r.value = "succeeded" THEN Inc(m, "total_submitted")
    ELSE m

\* handler.attempt_submission() and what follows it (orchestrator.py
\* 210-234): the record, the counter, and the finally clause
\* (close_extra_pages, ensure_valid_page); then the next posting.
AttemptSubmission ==
    /\ pc = "attempt"
    /\ \E r \in attempt_results(settings.simulation_mode) :
         /\ tracker' = record(tracker, posting, handler_outcome(r), handler_reason(r))
         /\ metrics' = handler_metrics(metrics, r)
         /\ inv' = [inv EXCEPT !.recs = @ + 1, !.exit = "return", !.res = r,
                               !.recovery = posting_finally(@)]
    /\ recordCalls' = recordCalls + 1
    /\ LeavePosting
    /\ GoNextJob
    /\ UNCHANGED << offstage, capRaised, discovered >>
    /\ UNCHANGED << formVars, authLog, exitVars >>

\* ------------------------------------------------------- interrupt, close
\* The awaits of run() before its finally clause.
ProcessingAwaits ==
    { "ensure_authenticated", "scrape", "navigate", "inspect", "find_easy_apply",
      "click_easy_apply", "attempt", "reauth" }

\* The operator's interrupt: asyncio cancels the task, CancelledError (not an
\* Exception) is raised at the await run() is suspended at and no handler
\* catches it; the finally clauses run.
Interrupt ==
    /\ interrupt = "none"
    /\ \/ /\ pc \in ProcessingAwaits
          /\ interrupt' = "processing"
          /\ UNCHANGED closeLog
          /\ pc' = run_on_exception("CancelledError")
          /\ inv' = IF inv.exit = "running"
                    THEN [inv EXCEPT !.exit = "CancelledError",
                                     !.recovery = IF pc = "attempt"
                                                  THEN posting_finally(@) ELSE @]
                    ELSE inv
          /\ attempt' = 1
          /\ LeaveSearch
          /\ LeavePosting
          /\ UNCHANGED urlIdx
       \/ /\ pc = "closing"             \* inside adapter.close()
          /\ interrupt' = "closing"
          /\ pc' = "done"
          /\ closeLog' = Append(closeLog, "adapter")
          /\ UNCHANGED << urlIdx, attempt, jobs, jobIdx, visited, posting, inv >>
    /\ runExc' = "CancelledError"
    /\ UNCHANGED << offstage, launched, capRaised, discovered >>
    /\ UNCHANGED << formVars, store, authLog >>

\* finally: await adapter.close(); tracker.close() (orchestrator.py 94-96).
\* adapter.close() awaits the browser (playwright_adapter.py 76-83) and
\* guards none of its calls: when it raises, the finally clause is left by
\* that exception and tracker.close() is not reached.
finally_close(log, closed) ==
    IF closed THEN log \o << "adapter", "tracker" >> ELSE Append(log, "adapter")

Close ==
    /\ pc = "closing"
    /\ \E closed \in BOOLEAN :
         /\ closeLog' = finally_close(closeLog, closed)
         /\ runExc' = IF closed THEN runExc ELSE "Error"
    /\ pc' = "done"
    /\ UNCHANGED << offstage, urlIdx, attempt, jobs, jobIdx, visited, posting, inv,
                    launched, interrupt, capRaised, discovered >>
    /\ UNCHANGED << formVars, store, authLog >>

\* ------------------------------------------- SessionManager, step by step
\* The pipeline at rest while the session manager's calls are followed.
smIdle == << settings, pc, urlIdx, attempt, jobs, jobIdx, visited, posting,
             metrics, tracker, launched, closeLog, runExc, fpc, step, fres,
             submitClicked, searchLog, reauthLog, expiredLog, inv, capRaised,
             exhaustedAt, interrupt, discovered, recordCalls, ad, ff, fm, fc, db, ms,
             sf, rt, rp >>

\* A call starts: the record of the previous call is dropped.
SmCall(name) ==
    [sm EXCEPT !.call = name, !.file_at_call = sm.state_file, !.ops = << >>,
               !.polls = << >>, !.verified = "not_run", !.exc = "none",
               !.saved = 0, !.calls = @ + 1, !.english = NoEnglish]

\* run() calls ensure_authenticated once, first (orchestrator.py 70;
\* session_manager.py 50-53).
EnsureAuthenticatedStarts ==
    /\ sm.at = "idle"
    /\ sm' = [SmCall("ensure_authenticated") EXCEPT
                !.at = IF state_path_exists(sm.state_file) THEN "verify"
                       ELSE "perform_login"]
    /\ UNCHANGED smIdle

\* _verify_logged_in (session_manager.py 68-84) and what
\* ensure_authenticated does with its result; the navigation to the feed can
\* raise.  A valid stored session goes through _ensure_english before the
\* return (session_manager.py 57-59).
VerifyLoggedIn ==
    /\ sm.at = "verify"
    /\ \E nav_ok, url_has_feed, is_english, changed \in BOOLEAN,
          markers \in SUBSET LOGGED_IN_SELECTORS, failed_at \in 0..Len(ENGLISH_CALLS) :
         LET s1 == [sm EXCEPT !.ops = Append(@, "verify")]
             ok == logged_in(url_has_feed, markers)
             e  == ensure_english(is_english, changed, failed_at)
             s2 == [s1 EXCEPT !.verified = IF ok THEN "ok" ELSE "failed"]
         IN  sm' = IF ~nav_ok THEN SmRaises(s1, "Error")
                   ELSE IF ~ok THEN [s2 EXCEPT !.at = after_verification(ok)]
                   ELSE IF e.result = "raised"
                        THEN SmRaises([s2 EXCEPT !.english = e], e.exc)
                   ELSE [s2 EXCEPT !.english = e, !.at = after_verification(ok)]
    /\ UNCHANGED smIdle

\* _perform_login up to the click on the sign-in button (session_manager.py
\* 86-96): the credentials test, then navigate, fill, fill, click, each of
\* which can raise (failed_at names the one that does, 0: none).
LoginOps == << "navigate_login", "fill_username", "fill_password", "click_submit" >>

SubmitCredentials ==
    /\ sm.at = "perform_login"
    /\ IF sm.email = "" \/ sm.password = ""
       THEN sm' = SmRaises(sm, "AuthenticationError")
       ELSE \E failed_at \in 0..Len(LoginOps) :
              LET done == IF failed_at = 0 THEN LoginOps
                          ELSE SubSeq(LoginOps, 1, failed_at)
                  s1 == [sm EXCEPT !.ops = @ \o done]
              IN  sm' = IF failed_at = 0 THEN [s1 EXCEPT !.at = "polling"]
                        ELSE SmRaises(s1, "Error")
    /\ UNCHANGED smIdle

\* One iteration of the polling loop (session_manager.py 103-120).
Poll ==
    /\ sm.at = "polling"
    /\ more_polls(Len(sm.polls))
    /\ \E url_has_feed \in BOOLEAN, markers \in SUBSET LOGGED_IN_SELECTORS :
         LET ok == logged_in(url_has_feed, markers)
         IN  sm' = [sm EXCEPT !.polls = Append(@, ok),
                              !.at = IF ok THEN "logged_in" ELSE "polling"]
    /\ UNCHANGED smIdle

\* The loop ended without a return (session_manager.py 122-125).
PollsExhausted ==
    /\ sm.at = "polling"
    /\ ~more_polls(Len(sm.polls))
    /\ sm' = SmRaises(sm, "AuthenticationError")
    /\ UNCHANGED smIdle

\* _perform_login returned: _ensure_english, then save_storage_state
\* (session_manager.py 64-65, 231-232).  The browser context exists from
\* launch() to close().
SaveStorageState ==
    /\ sm.at = "logged_in"
    /\ \E is_english, changed \in BOOLEAN, failed_at \in 0..Len(ENGLISH_CALLS) :
         LET e  == ensure_english(is_english, changed, failed_at)
             s1 == [sm EXCEPT !.english = e]
         IN  sm' = IF e.result = "raised" THEN SmRaises(s1, e.exc)
                   ELSE [s1 EXCEPT
                           !.state_file = save_storage_state("context", @, sm.written),
                           !.written = @ + 1,
                           !.saved = @ + 1,
                           !.ops = Append(@, "save"),
                           !.at = "returned"]
    /\ UNCHANGED smIdle

\* run() goes on after ensure_authenticated returned, and after
\* reauthenticate returned or raised (orchestrator.py 72-89, 105-114): the
\* searches, none of which touches the storage-state file.
PipelineRuns ==
    /\ \/ sm.at = "returned"
       \/ sm.at = "raised" /\ sm.call = "reauthenticate"
    /\ sm' = [sm EXCEPT !.at = "pipeline"]
    /\ UNCHANGED smIdle

\* _run_with_reauth calls reauthenticate (orchestrator.py 114;
\* session_manager.py 220-226): the file is deleted when it exists.
ReauthenticateStarts ==
    /\ sm.at = "pipeline"
    /\ sm.calls < MaxAuthCalls
    /\ LET s1 == SmCall("reauthenticate")
       IN  sm' = IF state_path_exists(sm.state_file)
                 THEN [s1 EXCEPT !.state_file = unlink(@),
                                 !.ops = << "unlink" >>,
                                 !.at = "perform_login"]
                 ELSE [s1 EXCEPT !.at = "perform_login"]
    /\ UNCHANGED smIdle

\* ----------------------------------------- PlaywrightAdapter, step by step
\* The pipeline and the session manager at rest while the adapter's
\* operations are followed.
adIdle == << settings, pc, urlIdx, attempt, jobs, jobIdx, visited, posting,
             metrics, tracker, launched, closeLog, runExc, fpc, step, fres,
             submitClicked, searchLog, reauthLog, expiredLog, inv, capRaised,
             exhaustedAt, interrupt, discovered, recordCalls, sm, ff, fm, fc, db, ms,
             sf, rt, rp >>

\* The context opens no more than MaxPages pages.
CanRecover(a) ==
    (a.context # "None" /\ ~page_open(a) /\ a.pages = << >>) => a.next <= MaxPages

\* The operation just made is kept with the adapter.
Did(a, op, present, ret, value) ==
    [a EXCEPT !.op = op, !.present = present, !.ret = ret, !.value = value,
              !.nav = NoNavigate]

\* The program is one control flow: it makes no other call of the adapter
\* between the two awaits of the cleanup.
OutsideCleanup == ad.flow \in { "idle", "attempt" }

\* A call of ensure_valid_page.
EnsureValidPage ==
    /\ OutsideCleanup
    /\ CanRecover(ad)
    /\ ad' = Did(ensure_valid_page(ad), "ensure_valid_page", FALSE, "returned", "None")
    /\ UNCHANGED adIdle

\* A call of close_extra_pages.
CloseExtraPages ==
    /\ OutsideCleanup
    /\ \E survivors \in SUBSET Range(ad.pages) :
         ad' = Did(close_extra_pages(ad, survivors), "close_extra_pages", FALSE,
                   "returned", "None")
    /\ UNCHANGED adIdle

\* The form attempt of a posting starts: the newest page is tracked
\* (orchestrator.py 191-197), then attempt_submission is awaited.
SwitchToNewestPage ==
    /\ ad.flow = "idle"
    /\ ad' = [Did(switch_to_newest_page(ad), "switch_to_newest_page", FALSE,
                  "returned", "None")
                EXCEPT !.flow = "attempt", !.exit = "none", !.close_requested = {}]
    /\ UNCHANGED adIdle

\* attempt_submission returns or raises; the handlers record the posting
\* (orchestrator.py 211-229) and the finally clause is entered.
AttemptEnds ==
    /\ ad.flow = "attempt"
    /\ \E exit \in AttemptExits :
         ad' = [ad EXCEPT !.exit = exit, !.flow = attempt_finally(exit)]
    /\ UNCHANGED adIdle

\* The finally clause, first await (orchestrator.py 233).
CleanupCloseExtraPages ==
    /\ ad.flow = "close_extra_pages"
    /\ \E survivors \in SUBSET Range(ad.pages) :
         ad' = [Did(close_extra_pages(ad, survivors), "close_extra_pages", FALSE,
                    "returned", "None")
                  EXCEPT !.flow = "ensure_valid_page"]
    /\ UNCHANGED adIdle

\* The finally clause, second await (orchestrator.py 234):
\* _process_single_posting is left and the next posting can start.
CleanupEnsureValidPage ==
    /\ ad.flow = "ensure_valid_page"
    /\ CanRecover(ad)
    /\ ad' = [Did(ensure_valid_page(ad), "ensure_valid_page", FALSE, "returned", "None")
                EXCEPT !.flow = "idle"]
    /\ UNCHANGED adIdle

\* A call of navigate.  A page load succeeds only on an open page; without
\* a browser context the `page` property raises instead of page.goto.  The
\* second load has an outcome of its own only when it is made.
Navigates ==
    /\ OutsideCleanup
    /\ CanRecover(ad)
    /\ \E first, second \in { Loaded } \cup LoadErrors :
         /\ first = Loaded => page_open(ad)
         /\ second = Loaded => page_open(ensure_valid_page(ad))
         /\ (first = Loaded \/ ~is_closed_target(first)) => second = first
         /\ ad.context = "None" => (first = NotLaunchedMsg /\ second = NotLaunchedMsg)
         /\ ad.context # "None" => (first # NotLaunchedMsg /\ second # NotLaunchedMsg)
         /\ LET r == navigate(ad, first, second)
            IN  ad' = [Did(r.a, "navigate", FALSE, r.ret, "None") EXCEPT !.nav = r.nav]
    /\ UNCHANGED adIdle

\* The site, or the person at the browser, closes a page.
PageCloses ==
    /\ \E q \in Range(ad.pages) :
         ad' = [ad EXCEPT !.pages = SelectSeq(@, LAMBDA r : r # q)]
    /\ UNCHANGED adIdle

\* The site opens a page of its own (a popup or a new tab).
PopupOpens ==
    /\ ad.context # "None"
    /\ ad.next <= MaxPages
    /\ ad' = [ad EXCEPT !.pages = Append(@, ad.next), !.next = @ + 1]
    /\ UNCHANGED adIdle

\* An operation of the port on some selector.  An element can be present
\* only on a page that is read, a handle stale only when one was found.
PortCall ==
    /\ OutsideCleanup
    /\ CanRecover(ad)
    /\ \E op \in LookupOps \cup ActOps, present, stale \in BOOLEAN :
         /\ present => \/ page_open(ad)
                       \/ op = "query_all" /\ page_open(ensure_valid_page(ad))
         /\ stale => present /\ op \in { "inner_text", "inner_html", "get_attribute" }
         /\ LET r == port(op, ad, present, stale)
            IN  ad' = Did(r.a, op, present, r.ret, r.value)
    /\ UNCHANGED adIdle

\* ------------------------------------- populate_visible_fields, by passes
ffIdle == << settings, pc, urlIdx, attempt, jobs, jobIdx, visited, posting,
             metrics, tracker, launched, closeLog, runExc, fpc, step, fres,
             submitClicked, searchLog, reauthLog, expiredLog, inv, capRaised,
             exhaustedAt, interrupt, discovered, recordCalls, sm, ad, fm, fc, db, ms,
             sf, rt, rp >>

\* A pass whose body is one try block (field_filler.py 407-429, 30-85,
\* 138-257, 269-337, 443-514): its exception is caught, and the next pass
\* follows either way.
GuardedPass(name, next) ==
    /\ ff.pass = name
    /\ \E raises \in BOOLEAN :
         ff' = [ff EXCEPT !.pass = next,
                          !.absorbed = IF raises THEN @ \cup { name } ELSE @]
    /\ UNCHANGED ffIdle

ScrollFormIntoView == GuardedPass("scroll", "phone")
FillPhoneIfPresent == GuardedPass("phone", "text_inputs")
FillDropdowns == GuardedPass("dropdowns", "radio_js")
FillRadioButtonsJs == GuardedPass("radio_js", "radio_fallback")
FillFieldsViaJs == GuardedPass("fields_via_js", "returned")

\* _fill_text_inputs, one label at a time; an exception leaves the loop,
\* _fill_text_inputs and populate_visible_fields (539), whose callers in
\* attempt_submission do not catch it (form_handler.py 86, 106, 306).
FillTextInput ==
    /\ ff.pass = "text_inputs"
    /\ Len(ff.label_done) < ff.labels
    /\ \E case \in LabelCases :
         LET out == fill_text_input(case)
         IN  ff' = [ff EXCEPT !.label_done = Append(@, out),
                              !.pass = IF out = "raised" THEN "raised" ELSE @]
    /\ UNCHANGED ffIdle

\* The loop over the labels is exhausted.
TextInputsDone ==
    /\ ff.pass = "text_inputs"
    /\ Len(ff.label_done) = ff.labels
    /\ ff' = [ff EXCEPT !.pass = "dropdowns"]
    /\ UNCHANGED ffIdle

\* The fieldset loop of _fill_radio_buttons, one fieldset at a time.
FillRadioFieldset ==
    /\ ff.pass = "radio_fallback"
    /\ Len(ff.fieldset_done) < ff.fieldsets
    /\ \E case \in FieldsetCases :
         LET out == fill_radio_fieldset(case)
         IN  ff' = [ff EXCEPT !.fieldset_done = Append(@, out),
                              !.pass = IF out = "raised" THEN "raised" ELSE @]
    /\ UNCHANGED ffIdle

\* The loop over the fieldsets is exhausted.
RadioFallbackDone ==
    /\ ff.pass = "radio_fallback"
    /\ Len(ff.fieldset_done) = ff.fieldsets
    /\ ff' = [ff EXCEPT !.pass = "fields_via_js"]
    /\ UNCHANGED ffIdle

\* ----------------------------- populate_visible_fields, control by control
fmIdle == << settings, pc, urlIdx, attempt, jobs, jobIdx, visited, posting,
             metrics, tracker, launched, closeLog, runExc, fpc, step, fres,
             submitClicked, searchLog, reauthLog, expiredLog, inv, capRaised,
             exhaustedAt, interrupt, discovered, recordCalls, sm, ad, ff, fc, db, ms,
             sf, rt, rp >>

\* populate_visible_fields is at the pass of this name.
AtPass(name) == fm.pass \in 1..Len(PASSES) /\ PASSES[fm.pass] = name

\* _scroll_form_into_view (field_filler.py 534): no control changes.
ScrollPass ==
    /\ AtPass("scroll")
    /\ fm' = [fm EXCEPT !.pass = @ + 1]
    /\ UNCHANGED fmIdle

\* _fill_phone_if_present (538); its exceptions are caught.
PhonePass ==
    /\ AtPass("phone")
    /\ \E raises \in BOOLEAN :
         fm' = [fm EXCEPT !.pass = @ + 1,
                          !.control = IF raises THEN @
                                      ELSE fill_phone_if_present(@, phone_number)]
    /\ UNCHANGED fmIdle

\* _fill_text_inputs (539); an exception ends populate_visible_fields.
TextInputsPass ==
    /\ AtPass("text_inputs")
    /\ \E raises \in BOOLEAN :
         fm' = IF raises THEN [fm EXCEPT !.pass = 0]
               ELSE [fm EXCEPT !.pass = @ + 1,
                               !.control = fill_text_inputs(@, input_field_responses)]
    /\ UNCHANGED fmIdle

\* _fill_dropdowns (540): one script, its exception caught.
DropdownsPass ==
    /\ AtPass("dropdowns")
    /\ \E raises \in BOOLEAN :
         fm' = IF raises THEN [fm EXCEPT !.pass = @ + 1]
               ELSE [fm EXCEPT
                       !.pass = @ + 1,
                       !.control = fill_dropdowns(@, dropdown_responses, fm.years),
                       !.answer = IF fm.control.kind = "select"
                                  THEN dropdown_answer(fm.control, dropdown_responses,
                                                       fm.years)
                                  ELSE @]
    /\ UNCHANGED fmIdle

\* The script of _fill_radio_buttons (541, 269-337), its exception caught.
RadioJsPass ==
    /\ AtPass("radio_js")
    /\ \E raises \in BOOLEAN :
         fm' = IF raises THEN [fm EXCEPT !.pass = @ + 1]
               ELSE [fm EXCEPT
                       !.pass = @ + 1,
                       !.control = fill_radio_buttons_js(@, radio_responses, fm.years),
                       !.answer = IF fm.control.kind = "radio"
                                  THEN radio_answer(fm.control, radio_responses,
                                                    fm.years)
                                  ELSE @]
    /\ UNCHANGED fmIdle

\* The fieldset loop of _fill_radio_buttons (340-397); an exception of its
\* queries ends populate_visible_fields.
RadioFallbackPass ==
    /\ AtPass("radio_fallback")
    /\ \E raises \in BOOLEAN :
         fm' = IF raises THEN [fm EXCEPT !.pass = 0]
               ELSE [fm EXCEPT !.pass = @ + 1,
                               !.control = fill_radio_buttons_fallback(
                                               @, radio_responses)]
    /\ UNCHANGED fmIdle

\* _fill_fields_via_js (544); its exception is caught.
FieldsViaJsPass ==
    /\ AtPass("fields_via_js")
    /\ \E raises \in BOOLEAN :
         fm' = [fm EXCEPT !.pass = @ + 1,
                          !.control = IF raises THEN @
                                      ELSE fill_fields_via_js(@, input_field_responses,
                                                              phone_number)]
    /\ UNCHANGED fmIdle

\* The form handler calls populate_visible_fields again on the page
\* (form_handler.py 86, 106, 306).
PopulateAgain ==
    /\ fm.pass = Len(PASSES) + 1
    /\ fm.call < MaxPopulateCalls
    /\ fm' = [fm EXCEPT !.call = @ + 1, !.pass = 1, !.found = fm.control,
                        !.answer = "not_run"]
    /\ UNCHANGED fmIdle

\* ------------------------------------------------ the filter chain, by calls
fcIdle == << settings, pc, urlIdx, attempt, jobs, jobIdx, visited, posting,
             metrics, tracker, launched, closeLog, runExc, fpc, step, fres,
             submitClicked, searchLog, reauthLog, expiredLog, inv, capRaised,
             exhaustedAt, interrupt, discovered, recordCalls, sm, ad, ff, fm, db, ms,
             sf, rt, rp >>

\* The postings a search may discover.
FilterPostings ==
    { JobPosting(1, t, c) : t \in Titles, c \in Companies }

\* self._filter_head.evaluate(posting) (orchestrator.py 169-171), on a
\* pipeline that has a chain.
EvaluatePosting ==
    /\ fc.chain # << >>
    /\ Len(fc.log) < MaxEvaluations
    /\ \E p \in FilterPostings :
         fc' = [fc EXCEPT
                  !.log = Append(@, [posting |-> p,
                                     reason |-> chain_evaluate(fc.chain, p)]),
                  !.chain = chain_after_evaluate(@, p)]
    /\ UNCHANGED fcIdle

\* With no chain (`if self._filter_head:` fails) the posting is not
\* evaluated, and no reason rejects it.
SkipEvaluation ==
    /\ fc.chain = << >>
    /\ Len(fc.log) < MaxEvaluations
    /\ \E p \in FilterPostings :
         fc' = [fc EXCEPT !.log = Append(@, [posting |-> p, reason |-> NoReason])]
    /\ UNCHANGED fcIdle

\* ---------------------------------------------- the postings table, by calls
dbIdle == << settings, pc, urlIdx, attempt, jobs, jobIdx, visited, posting,
             metrics, tracker, launched, closeLog, runExc, fpc, step, fres,
             submitClicked, searchLog, reauthLog, expiredLog, inv, capRaised,
             exhaustedAt, interrupt, discovered, recordCalls, sm, ad, ff, fm, fc, ms,
             sf, rt, rp >>

\* tracker.upsert_posting(posting) (tracker.py 111-137)
UpsertPosting ==
    /\ Len(db.upserts) < MaxUpserts
    /\ \E p \in TrackedPostings :
         db' = [db EXCEPT
                  !.postings = upsert_posting_row(@, p),
                  !.upserts = Append(@, [posting |-> p,
                                         id |-> upsert_posting_id(db.postings, p)])]
    /\ UNCHANGED dbIdle

\* tracker.record_submission(posting_id, ...) for a row id returned before
\* (tracker.py 141-164): a row of submissions, none of postings.
RecordSubmission ==
    /\ db.upserts # << >>
    /\ db.submissions < Len(db.upserts)
    /\ db' = [db EXCEPT !.submissions = @ + 1]
    /\ UNCHANGED dbIdle

\* ------------------------------------------------- the response lookups
rtIdle == << settings, pc, urlIdx, attempt, jobs, jobIdx, visited, posting,
             metrics, tracker, launched, closeLog, runExc, fpc, step, fres,
             submitClicked, searchLog, reauthLog, expiredLog, inv, capRaised,
             exhaustedAt, interrupt, discovered, recordCalls, sm, ad, ff, fm, fc, db,
             ms, sf, rp >>

\* A pass of populate_visible_fields looks the label up.
LookUpLabel ==
    /\ \E pass \in LOOKUP_PASSES :
         rt' = [rt EXCEPT !.pass = pass,
                          !.answer = pass_match(pass, rt.label, rt.responses)]
    /\ UNCHANGED rtIdle

\* The next control of the form page is looked at.
NextLabel ==
    /\ rt.pass # "none"
    /\ \E label \in LookupLabels :
         rt' = [rt EXCEPT !.label = label, !.pass = "none", !.answer = ""]
    /\ UNCHANGED rtIdle

\* ---------------------------------------------------- the resume picker
rpIdle == << settings, pc, urlIdx, attempt, jobs, jobIdx, visited, posting,
             metrics, tracker, launched, closeLog, runExc, fpc, step, fres,
             submitClicked, searchLog, reauthLog, expiredLog, inv, capRaised,
             exhaustedAt, interrupt, discovered, recordCalls, sm, ad, ff, fm, fc, db,
             ms, sf, rt >>

\* attempt_submission calls select_resume on the form page (form_handler.py
\* 85, 307).
SelectResume ==
    /\ ~rp.called
    /\ rp' = select_resume(rp)
    /\ UNCHANGED rpIdle

\* The form moves to its next page, where select_resume is called again:
\* the marker, the cards and the state of the card's handle are those of the
\* new page.
ResumeNextPage ==
    /\ rp.called
    /\ \E marker, read_raises \in BOOLEAN, cards \in 0..MaxCards :
         rp' = [rp EXCEPT !.marker = marker, !.cards = cards,
                          !.read_raises = read_raises, !.called = FALSE,
                          !.uploaded = FALSE, !.clicks = << >>]
    /\ UNCHANGED rpIdle

Next ==
    \/ Launch
    \/ EnsureAuthenticated
    \/ NextUrl
    \/ UrlsDone
    \/ Reauthenticate
    \/ ScrapeSearchResults
    \/ SearchDone
    \/ RaiseCapReached
    \/ StartPosting
    \/ Navigate
    \/ Inspect
    \/ FindEasyApply
    \/ ClickEasyApply
    \/ AttemptSubmission
    \/ Interrupt
    \/ Close

Spec == Init /\ [][Next]_vars

\* ------------------------------------------- the form handler on its own
\* One ApplicationFormHandler, constructed for a posting whose Easy Apply
\* click landed, running attempt_submission page by page.
InitForm ==
    /\ settings \in [simulation_mode : BOOLEAN,
                     max_submissions_per_session : 0..MaxCap]
    /\ pc = "attempt"
    /\ urlIdx = 1
    /\ attempt = 1
    /\ jobs \in { l \in JobLists(MaxJobs) : l # <<>> }
    /\ jobIdx = 1
    /\ visited = << jobs[1] >>
    /\ posting \in { JobPosting(jobs[1], d.title, d.company) :
                        d \in { e \in ExtractedDetails :
                                  evaluate(JobPosting(jobs[1], e.title, e.company))
                                      = NoReason } }
    /\ metrics = [total_inspected |-> 1, total_submitted |-> 0, total_filtered |-> 0,
                  total_failed |-> 0, total_skipped |-> 0, finalized |-> FALSE]
    /\ tracker = [postings |-> <<>>, submissions |-> <<>>, pending |-> <<>>,
                  session |-> "started"]
    /\ launched = TRUE
    /\ closeLog = <<>>
    /\ runExc = "none"
    /\ fpc = "first_page"
    /\ step = 0
    /\ fres = NoResult
    /\ submitClicked = FALSE
    /\ searchLog = << 1 >>
    /\ reauthLog = <<>>
    /\ expiredLog = <<>>
    /\ inv = StartedInv(jobs[1])
    /\ capRaised = FALSE
    /\ exhaustedAt = 0
    /\ interrupt = "none"
    /\ discovered = Len(jobs)
    /\ recordCalls = 0
    /\ sm = SessionManager("e", "p", 0)
    /\ ad = PlaywrightAdapter("open")
    /\ ff = FieldFiller(0, 0)
    /\ fm = NoFormPage
    /\ fc = NoFilterChain
    /\ db = Database
    /\ ms = NoIteration
    /\ sf = NoSubmitFinal
    /\ rt = NoLookup
    /\ rp = NoResumeCall

NextForm ==
    \/ AttemptFirstPage
    \/ AttemptSecondCheck
    \/ MultiStepIteration
    \/ MultiStepExhausted

SpecForm == InitForm /\ [][NextForm]_vars

\* ------------------------------------------------ one search on its own
\* One _process_search call, for the first url of a session that has just
\* started: discovery, then the postings one after the other, until the
\* call returns or an exception leaves it.
InitSearch ==
    /\ settings \in [simulation_mode : BOOLEAN,
                     max_submissions_per_session : 0..MaxCap]
    /\ pc = "scrape"
    /\ urlIdx = 1
    /\ attempt = 1
    /\ jobs = <<>>
    /\ jobIdx = 1
    /\ visited = <<>>
    /\ posting = NoPosting
    /\ metrics = [total_inspected |-> 0, total_submitted |-> 0, total_filtered |-> 0,
                  total_failed |-> 0, total_skipped |-> 0, finalized |-> FALSE]
    /\ tracker = [postings |-> <<>>, submissions |-> <<>>, pending |-> <<>>,
                  session |-> "started"]
    /\ launched = TRUE
    /\ closeLog = <<>>
    /\ runExc = "none"
    /\ fpc = "idle"
    /\ step = 0
    /\ fres = NoResult
    /\ submitClicked = FALSE
    /\ searchLog = <<>>
    /\ reauthLog = <<>>
    /\ expiredLog = <<>>
    /\ inv = NoInv
    /\ capRaised = FALSE
    /\ exhaustedAt = 0
    /\ interrupt = "none"
    /\ discovered = 0
    /\ recordCalls = 0
    /\ sm = SessionManager("e", "p", 0)
    /\ ad = PlaywrightAdapter("open")
    /\ ff = FieldFiller(0, 0)
    /\ fm = NoFormPage
    /\ fc = NoFilterChain
    /\ db = Database
    /\ ms = NoIteration
    /\ sf = NoSubmitFinal
    /\ rt = NoLookup
    /\ rp = NoResumeCall

NextSearch ==
    \/ ScrapeSearchResults
    \/ SearchDone
    \/ RaiseCapReached
    \/ StartPosting
    \/ Navigate
    \/ Inspect
    \/ FindEasyApply
    \/ ClickEasyApply
    \/ AttemptSubmission

SpecSearch == InitSearch /\ [][NextSearch]_vars

\* --------------------------------------- one _run_with_reauth call, midway
\* _run_with_reauth(_process_search, url) for the first url, after the first
\* of two postings found was recorded "skipped_duplicate" (no Easy Apply on
\* its page) and before the second is started.  `discovered` counts the ids
\* of the scrapes that follow.
InitRetry ==
    /\ settings \in [simulation_mode : BOOLEAN,
                     max_submissions_per_session : 0..MaxCap]
    /\ pc = "job_loop"
    /\ urlIdx = 1
    /\ attempt = 1
    /\ jobs \in { l \in JobLists(MaxJobs) : Len(l) = 2 }
    /\ jobIdx = 2
    /\ visited = << jobs[1] >>
    /\ posting = NoPosting
    /\ metrics = [total_inspected |-> 1, total_submitted |-> 0, total_filtered |-> 0,
                  total_failed |-> 0, total_skipped |-> 1, finalized |-> FALSE]
    /\ \E d \in { e \in ExtractedDetails :
                     evaluate(JobPosting(jobs[1], e.title, e.company)) = NoReason } :
         /\ tracker = record([postings |-> <<>>, submissions |-> <<>>,
                              pending |-> <<>>, session |-> "started"],
                             JobPosting(jobs[1], d.title, d.company),
                             "skipped_duplicate", NoReason)
         /\ inv = [StartedInv(jobs[1]) EXCEPT
                      !.recs = 1, !.exit = "return", !.inspected = TRUE,
                      !.details = d, !.lookup = "None",
                      !.recovery = navigate_recoveries(TRUE)]
    /\ launched = TRUE
    /\ closeLog = <<>>
    /\ runExc = "none"
    /\ fpc = "idle"
    /\ step = 0
    /\ fres = NoResult
    /\ submitClicked = FALSE
    /\ searchLog = << 1 >>
    /\ reauthLog = <<>>
    /\ expiredLog = <<>>
    /\ capRaised = FALSE
    /\ exhaustedAt = 0
    /\ interrupt = "none"
    /\ discovered = 0
    /\ recordCalls = 1
    /\ sm = SessionManager("e", "p", 0)
    /\ ad = PlaywrightAdapter("open")
    /\ ff = FieldFiller(0, 0)
    /\ fm = NoFormPage
    /\ fc = NoFilterChain
    /\ db = Database
    /\ ms = NoIteration
    /\ sf = NoSubmitFinal
    /\ rt = NoLookup
    /\ rp = NoResumeCall

NextRetry ==
    \/ Reauthenticate
    \/ ScrapeSearchResults
    \/ SearchDone
    \/ RaiseCapReached
    \/ StartPosting
    \/ Navigate
    \/ Inspect
    \/ FindEasyApply
    \/ ClickEasyApply
    \/ AttemptSubmission

SpecRetry == InitRetry /\ [][NextRetry]_vars

\* A run up to its ensure_authenticated call: the browser is launched, the
\* credentials are the settings' (either may be empty), the storage-state
\* file is there or not.
InitAuth ==
    /\ settings \in [simulation_mode : {TRUE},
                     max_submissions_per_session : {0}]
    /\ pc = "ensure_authenticated"
    /\ urlIdx = 1
    /\ attempt = 1
    /\ jobs = <<>>
    /\ jobIdx = 1
    /\ visited = <<>>
    /\ posting = NoPosting
    /\ metrics = [total_inspected |-> 0, total_submitted |-> 0, total_filtered |-> 0,
                  total_failed |-> 0, total_skipped |-> 0, finalized |-> FALSE]
    /\ tracker = [postings |-> <<>>, submissions |-> <<>>, pending |-> <<>>,
                  session |-> "none"]
    /\ launched = TRUE
    /\ closeLog = <<>>
    /\ runExc = "none"
    /\ fpc = "idle"
    /\ step = 0
    /\ fres = NoResult
    /\ submitClicked = FALSE
    /\ searchLog = <<>>
    /\ reauthLog = <<>>
    /\ expiredLog = <<>>
    /\ inv = NoInv
    /\ capRaised = FALSE
    /\ exhaustedAt = 0
    /\ interrupt = "none"
    /\ discovered = 0
    /\ recordCalls = 0
    /\ \E email \in { "", "e" }, password \in { "", "p" }, file \in { 0, 1 } :
         sm = SessionManager(email, password, file)
    /\ ad = PlaywrightAdapter("open")
    /\ ff = FieldFiller(0, 0)
    /\ fm = NoFormPage
    /\ fc = NoFilterChain
    /\ db = Database
    /\ ms = NoIteration
    /\ sf = NoSubmitFinal
    /\ rt = NoLookup
    /\ rp = NoResumeCall

NextAuth ==
    \/ EnsureAuthenticatedStarts
    \/ VerifyLoggedIn
    \/ SubmitCredentials
    \/ Poll
    \/ PollsExhausted
    \/ SaveStorageState
    \/ PipelineRuns
    \/ ReauthenticateStarts

SpecAuth == InitAuth /\ [][NextAuth]_vars

\* The adapter as constructed, or after launch(), with the rest of the
\* program at rest.
InitAdapter ==
    /\ settings \in [simulation_mode : {TRUE},
                     max_submissions_per_session : {0}]
    /\ pc = "launch"
    /\ urlIdx = 1
    /\ attempt = 1
    /\ jobs = <<>>
    /\ jobIdx = 1
    /\ visited = <<>>
    /\ posting = NoPosting
    /\ metrics = [total_inspected |-> 0, total_submitted |-> 0, total_filtered |-> 0,
                  total_failed |-> 0, total_skipped |-> 0, finalized |-> FALSE]
    /\ tracker = [postings |-> <<>>, submissions |-> <<>>, pending |-> <<>>,
                  session |-> "none"]
    /\ launched = FALSE
    /\ closeLog = <<>>
    /\ runExc = "none"
    /\ fpc = "idle"
    /\ step = 0
    /\ fres = NoResult
    /\ submitClicked = FALSE
    /\ searchLog = <<>>
    /\ reauthLog = <<>>
    /\ expiredLog = <<>>
    /\ inv = NoInv
    /\ capRaised = FALSE
    /\ exhaustedAt = 0
    /\ interrupt = "none"
    /\ discovered = 0
    /\ recordCalls = 0
    /\ sm = SessionManager("e", "p", 0)
    /\ \E context \in { "None", "open" } : ad = PlaywrightAdapter(context)
    /\ ff = FieldFiller(0, 0)
    /\ fm = NoFormPage
    /\ fc = NoFilterChain
    /\ db = Database
    /\ ms = NoIteration
    /\ sf = NoSubmitFinal
    /\ rt = NoLookup
    /\ rp = NoResumeCall

NextAdapter ==
    \/ EnsureValidPage
    \/ CloseExtraPages
    \/ PageCloses
    \/ PopupOpens
    \/ PortCall
    \/ Navigates
    \/ SwitchToNewestPage
    \/ AttemptEnds
    \/ CleanupCloseExtraPages
    \/ CleanupEnsureValidPage

SpecAdapter == InitAdapter /\ [][NextAdapter]_vars

\* populate_visible_fields called on a form page, with the rest of the
\* program at rest.
InitFiller ==
    /\ settings \in [simulation_mode : {TRUE},
                     max_submissions_per_session : {0}]
    /\ pc = "attempt"
    /\ urlIdx = 1
    /\ attempt = 1
    /\ jobs = <<>>
    /\ jobIdx = 1
    /\ visited = <<>>
    /\ posting = NoPosting
    /\ metrics = [total_inspected |-> 0, total_submitted |-> 0, total_filtered |-> 0,
                  total_failed |-> 0, total_skipped |-> 0, finalized |-> FALSE]
    /\ tracker = [postings |-> <<>>, submissions |-> <<>>, pending |-> <<>>,
                  session |-> "none"]
    /\ launched = TRUE
    /\ closeLog = <<>>
    /\ runExc = "none"
    /\ fpc = "first_page"
    /\ step = 0
    /\ fres = NoResult
    /\ submitClicked = FALSE
    /\ searchLog = <<>>
    /\ reauthLog = <<>>
    /\ expiredLog = <<>>
    /\ inv = NoInv
    /\ capRaised = FALSE
    /\ exhaustedAt = 0
    /\ interrupt = "none"
    /\ discovered = 0
    /\ recordCalls = 0
    /\ sm = SessionManager("e", "p", 0)
    /\ ad = PlaywrightAdapter("open")
    /\ \E labels, fieldsets \in 0..MaxControls : ff = FieldFiller(labels, fieldsets)
    /\ fm = NoFormPage
    /\ fc = NoFilterChain
    /\ db = Database
    /\ ms = NoIteration
    /\ sf = NoSubmitFinal
    /\ rt = NoLookup
    /\ rp = NoResumeCall

NextFiller ==
    \/ ScrollFormIntoView
    \/ FillPhoneIfPresent
    \/ FillTextInput
    \/ TextInputsDone
    \/ FillDropdowns
    \/ FillRadioButtonsJs
    \/ FillRadioFieldset
    \/ RadioFallbackDone
    \/ FillFieldsViaJs

SpecFiller == InitFiller /\ [][NextFiller]_vars

\* populate_visible_fields called on a form page with one control, with the
\* rest of the program at rest.
InitControls ==
    /\ settings \in [simulation_mode : {TRUE},
                     max_submissions_per_session : {0}]
    /\ pc = "attempt"
    /\ urlIdx = 1
    /\ attempt = 1
    /\ jobs = <<>>
    /\ jobIdx = 1
    /\ visited = <<>>
    /\ posting = NoPosting
    /\ metrics = [total_inspected |-> 0, total_submitted |-> 0, total_filtered |-> 0,
                  total_failed |-> 0, total_skipped |-> 0, finalized |-> FALSE]
    /\ tracker = [postings |-> <<>>, submissions |-> <<>>, pending |-> <<>>,
                  session |-> "none"]
    /\ launched = TRUE
    /\ closeLog = <<>>
    /\ runExc = "none"
    /\ fpc = "first_page"
    /\ step = 0
    /\ fres = NoResult
    /\ submitClicked = FALSE
    /\ searchLog = <<>>
    /\ reauthLog = <<>>
    /\ expiredLog = <<>>
    /\ inv = NoInv
    /\ capRaised = FALSE
    /\ exhaustedAt = 0
    /\ interrupt = "none"
    /\ discovered = 0
    /\ recordCalls = 0
    /\ sm = SessionManager("e", "p", 0)
    /\ ad = PlaywrightAdapter("open")
    /\ ff = FieldFiller(0, 0)
    /\ \E c \in Controls, years \in 0..MaxYears : fm = FormPage(c, years)
    /\ fc = NoFilterChain
    /\ db = Database
    /\ ms = NoIteration
    /\ sf = NoSubmitFinal
    /\ rt = NoLookup
    /\ rp = NoResumeCall

NextControls ==
    \/ ScrollPass
    \/ PhonePass
    \/ TextInputsPass
    \/ DropdownsPass
    \/ RadioJsPass
    \/ RadioFallbackPass
    \/ FieldsViaJsPass
    \/ PopulateAgain

SpecControls == InitControls /\ [][NextControls]_vars

\* The pipeline's filter chain, built from the settings and asked about one
\* posting after another, with the rest of the program at rest.
InitFilter ==
    /\ settings \in [simulation_mode : {TRUE},
                     max_submissions_per_session : {0}]
    /\ pc = "attempt"
    /\ urlIdx = 1
    /\ attempt = 1
    /\ jobs = <<>>
    /\ jobIdx = 1
    /\ visited = <<>>
    /\ posting = NoPosting
    /\ metrics = [total_inspected |-> 0, total_submitted |-> 0, total_filtered |-> 0,
                  total_failed |-> 0, total_skipped |-> 0, finalized |-> FALSE]
    /\ tracker = [postings |-> <<>>, submissions |-> <<>>, pending |-> <<>>,
                  session |-> "none"]
    /\ launched = TRUE
    /\ closeLog = <<>>
    /\ runExc = "none"
    /\ fpc = "first_page"
    /\ step = 0
    /\ fres = NoResult
    /\ submitClicked = FALSE
    /\ searchLog = <<>>
    /\ reauthLog = <<>>
    /\ expiredLog = <<>>
    /\ inv = NoInv
    /\ capRaised = FALSE
    /\ exhaustedAt = 0
    /\ interrupt = "none"
    /\ discovered = 0
    /\ recordCalls = 0
    /\ sm = SessionManager("e", "p", 0)
    /\ ad = PlaywrightAdapter("open")
    /\ ff = FieldFiller(0, 0)
    /\ fm = NoFormPage
    /\ \E companies \in CompanyTermLists, titles \in TitleTermLists :
         fc = FilterChain(companies, titles)
    /\ db = Database
    /\ ms = NoIteration
    /\ sf = NoSubmitFinal
    /\ rt = NoLookup
    /\ rp = NoResumeCall

NextFilter ==
    \/ EvaluatePosting
    \/ SkipEvaluation

SpecFilter == InitFilter /\ [][NextFilter]_vars

\* The tracker's postings table under upsert_posting calls, with the rest
\* of the program at rest.
InitTracker ==
    /\ settings \in [simulation_mode : {TRUE},
                     max_submissions_per_session : {0}]
    /\ pc = "attempt"
    /\ urlIdx = 1
    /\ attempt = 1
    /\ jobs = <<>>
    /\ jobIdx = 1
    /\ visited = <<>>
    /\ posting = NoPosting
    /\ metrics = [total_inspected |-> 0, total_submitted |-> 0, total_filtered |-> 0,
                  total_failed |-> 0, total_skipped |-> 0, finalized |-> FALSE]
    /\ tracker = [postings |-> <<>>, submissions |-> <<>>, pending |-> <<>>,
                  session |-> "none"]
    /\ launched = TRUE
    /\ closeLog = <<>>
    /\ runExc = "none"
    /\ fpc = "first_page"
    /\ step = 0
    /\ fres = NoResult
    /\ submitClicked = FALSE
    /\ searchLog = <<>>
    /\ reauthLog = <<>>
    /\ expiredLog = <<>>
    /\ inv = NoInv
    /\ capRaised = FALSE
    /\ exhaustedAt = 0
    /\ interrupt = "none"
    /\ discovered = 0
    /\ recordCalls = 0
    /\ sm = SessionManager("e", "p", 0)
    /\ ad = PlaywrightAdapter("open")
    /\ ff = FieldFiller(0, 0)
    /\ fm = NoFormPage
    /\ fc = NoFilterChain
    /\ db = Database
    /\ ms = NoIteration
    /\ sf = NoSubmitFinal
    /\ rt = NoLookup
    /\ rp = NoResumeCall

NextTracker ==
    \/ UpsertPosting
    \/ RecordSubmission

SpecTracker == InitTracker /\ [][NextTracker]_vars

\* A response table as loaded and a label of a form page, with the rest of
\* the program at rest.
InitMatch ==
    /\ settings \in [simulation_mode : {TRUE},
                     max_submissions_per_session : {0}]
    /\ pc = "attempt"
    /\ urlIdx = 1
    /\ attempt = 1
    /\ jobs = <<>>
    /\ jobIdx = 1
    /\ visited = <<>>
    /\ posting = NoPosting
    /\ metrics = [total_inspected |-> 0, total_submitted |-> 0, total_filtered |-> 0,
                  total_failed |-> 0, total_skipped |-> 0, finalized |-> FALSE]
    /\ tracker = [postings |-> <<>>, submissions |-> <<>>, pending |-> <<>>,
                  session |-> "none"]
    /\ launched = TRUE
    /\ closeLog = <<>>
    /\ runExc = "none"
    /\ fpc = "first_page"
    /\ step = 0
    /\ fres = NoResult
    /\ submitClicked = FALSE
    /\ searchLog = <<>>
    /\ reauthLog = <<>>
    /\ expiredLog = <<>>
    /\ inv = NoInv
    /\ capRaised = FALSE
    /\ exhaustedAt = 0
    /\ interrupt = "none"
    /\ discovered = 0
    /\ recordCalls = 0
    /\ sm = SessionManager("e", "p", 0)
    /\ ad = PlaywrightAdapter("open")
    /\ ff = FieldFiller(0, 0)
    /\ fm = NoFormPage
    /\ fc = NoFilterChain
    /\ db = Database
    /\ ms = NoIteration
    /\ sf = NoSubmitFinal
    /\ \E responses \in ResponseTables, label \in LookupLabels :
         rt = Lookup(responses, label, "none", "")
    /\ rp = NoResumeCall

NextMatch ==
    \/ LookUpLabel
    \/ NextLabel

SpecMatch == InitMatch /\ [][NextMatch]_vars

\* A form page at the time select_resume is called on it, with the rest of
\* the program at rest.
InitResume ==
    /\ settings \in [simulation_mode : {TRUE},
                     max_submissions_per_session : {0}]
    /\ pc = "attempt"
    /\ urlIdx = 1
    /\ attempt = 1
    /\ jobs = <<>>
    /\ jobIdx = 1
    /\ visited = <<>>
    /\ posting = NoPosting
    /\ metrics = [total_inspected |-> 0, total_submitted |-> 0, total_filtered |-> 0,
                  total_failed |-> 0, total_skipped |-> 0, finalized |-> FALSE]
    /\ tracker = [postings |-> <<>>, submissions |-> <<>>, pending |-> <<>>,
                  session |-> "none"]
    /\ launched = TRUE
    /\ closeLog = <<>>
    /\ runExc = "none"
    /\ fpc = "first_page"
    /\ step = 0
    /\ fres = NoResult
    /\ submitClicked = FALSE
    /\ searchLog = <<>>
    /\ reauthLog = <<>>
    /\ expiredLog = <<>>
    /\ inv = NoInv
    /\ capRaised = FALSE
    /\ exhaustedAt = 0
    /\ interrupt = "none"
    /\ discovered = 0
    /\ recordCalls = 0
    /\ sm = SessionManager("e", "p", 0)
    /\ ad = PlaywrightAdapter("open")
    /\ ff = FieldFiller(0, 0)
    /\ fm = NoFormPage
    /\ fc = NoFilterChain
    /\ db = Database
    /\ ms = NoIteration
    /\ sf = NoSubmitFinal
    /\ rt = NoLookup
    /\ \E path \in { "", "cv.pdf" }, exists, marker, read_raises \in BOOLEAN,
          inputs \in { << >>, << FALSE >>, << TRUE >>, << FALSE, TRUE >> },
          hidden \in { "none", "accepts", "raises" },
          cards \in 0..MaxCards, preferred_index \in (-1)..(MaxCards + 2) :
         rp = ResumeCall(path, exists, inputs, hidden, marker, cards,
                         preferred_index, read_raises)

NextResume ==
    \/ SelectResume
    \/ ResumeNextPage

SpecResume == InitResume /\ [][NextResume]_vars

TypeOK ==
    /\ pc \in { "launch", "ensure_authenticated", "url_loop", "scrape", "job_loop",
                "navigate", "inspect", "find_easy_apply", "click_easy_apply",
                "attempt", "reauth", "closing", "done" }
    /\ fpc \in { "idle", "first_page", "second_check", "multi_step", "done" }
    /\ step \in 0..MAX_FORM_STEPS

\* attempt_submission, run page by page, ends in one of the results the
\* pipeline's AttemptSubmission step draws from.
FormResultsCovered ==
    fpc = "done" => fres \in attempt_results(settings.simulation_mode)

\* ================================================================= claims
\* The positions inside _process_single_posting.
PostingStages ==
    { "navigate", "inspect", "find_easy_apply", "click_easy_apply", "attempt" }

IsPrefix(a, b) == Len(a) <= Len(b) /\ \A i \in 1..Len(a) : a[i] = b[i]

\* ------------------------------------------------------------------- C1
\* C1: every _process_single_posting call that does not raise
\* SessionExpiredError has written exactly one record through _record when
\* it ends, whether it returns or leaves by an exception.
\* It has written none when both page loads fail (orchestrator.py 147-149)
\* and none when the script that locates Easy Apply raises (171).
C1_ExactlyOneRecord ==
    inv.exit \in {"return", "Exception"} => inv.recs = 1

\* ------------------------------------------------------------------- C2
\* C2: with simulation mode on, attempt_submission never dispatches a click
\* on a Submit control, whatever pages the form shows: neither _submit_final
\* nor the bottom-button fallback of the stepping loop does.
\* The fallback does: _js_click_bottom_button does not look at the
\* simulation flag and clicks the last button whose text or aria-label
\* contains submit, next, review or continue.
C2_SimulationNeverClicksSubmit ==
    settings.simulation_mode => ~submitClicked

\* ------------------------------------------------------------------- C3
\* C3: attempt_submission returns "dry_run" only when simulation mode is on,
\* returns "succeeded" only when simulation mode is off and a click strategy
\* of _submit_final reported success, and returns nothing else; every other
\* ending is a raised exception.
C3_AttemptSubmissionResult ==
    fpc = "done" =>
        \/ fres.kind = "return" /\ fres.value = "dry_run"
              /\ settings.simulation_mode /\ ~fres.clicked
        \/ fres.kind = "return" /\ fres.value = "succeeded"
              /\ ~settings.simulation_mode /\ fres.clicked
        \/ fres.kind \in {"FormSubmissionError", "Exception"}

\* A multi-step form whose Submit control is clicked with simulation off.
C3_Witness ==
    /\ fpc = "done"
    /\ step > 0
    /\ ~settings.simulation_mode
    /\ fres = Returned("succeeded", TRUE)

\* ------------------------------------------------------------------- C4
\* C4: _navigate_multi_step runs at most MAX_FORM_STEPS (10) iterations; when
\* all of them ended with a Review, Next or fallback click and no Submit
\* control was found, the attempt is "dry_run" in simulation mode and a
\* FormSubmissionError otherwise, never "succeeded".
C4_MultiStepBound ==
    /\ step <= MAX_FORM_STEPS
    /\ (fpc = "multi_step" /\ step = MAX_FORM_STEPS) => ~ENABLED MultiStepIteration
    /\ (fpc = "done" /\ step = MAX_FORM_STEPS) =>
          /\ fres.value # "succeeded"
          /\ fres = IF settings.simulation_mode THEN Returned("dry_run", FALSE)
                    ELSE Raised("FormSubmissionError", FSE_MaxSteps)

\* Ten iterations done and the attempt over, simulation off.
C4_Witness ==
    /\ fpc = "done"
    /\ step = MAX_FORM_STEPS
    /\ ~settings.simulation_mode
    /\ fres.kind = "FormSubmissionError"

\* ------------------------------------------------------------------- C5
\* C5: with three search urls (or more) where the only SessionExpiredError
\* of the run is raised while the second is processed, and reauthenticate
\* returns: reauthenticate is called exactly once, _process_search is run
\* again for the second url, then for the third (and the later ones); the
\* first url is not processed again.
C5_Expected == << 1, 2, 2 >> \o [i \in 1..(NumUrls - 2) |-> i + 2]

C5_Scenario ==
    /\ NumUrls >= 3
    /\ expiredLog = << 2 >>
    /\ \A i \in 1..Len(reauthLog) : reauthLog[i].ok
    /\ interrupt # "processing"

\* C5, as an invariant of the scenario: the _process_search calls made so
\* far are a prefix of 1, 2, 2, 3, ..; reauthenticate has been called once as
\* soon as the expiry is handled; a run that ends without the cap being hit
\* has made exactly those calls.
C5_ReauthOnceAndResume ==
    C5_Scenario =>
        /\ IsPrefix(searchLog, C5_Expected)
        /\ reauthCalls = IF pc = "reauth" THEN 0 ELSE 1
        /\ (pc = "done" /\ ~capRaised) => searchLog = C5_Expected

\* The run of the scenario that went through every url.
C5_Witness ==
    /\ C5_Scenario
    /\ pc = "done"
    /\ ~capRaised
    /\ searchLog = C5_Expected
    /\ reauthLog = << [url |-> 2, ok |-> TRUE] >>

\* ------------------------------------------------------------------- C6
\* C6: once re-authentication is exhausted on a search url (its third
\* attempt raises SessionExpiredError, or reauthenticate raises
\* AuthenticationError), no later search url is processed.
\* run() handles both exceptions with `except Exception` (orchestrator.py
\* 88-89) and goes on with the next url.
C6_RunStopsWhenReauthExhausted ==
    exhaustedAt # 0 => \A i \in 1..Len(searchLog) : searchLog[i] <= exhaustedAt

\* ------------------------------------------------------------------- C7
\* C7: when attempt_submission raises FormSubmissionError for a posting,
\* exactly one record is written for it, with outcome "failed" and the
\* error's message as failure reason, total_failed grows by one (and no
\* other counter moves), and _process_search goes on to the next posting of
\* the same search: when there is one, it is started.
C7_FormSubmissionErrorRecorded ==
    /\ [][ (pc = "attempt" /\ pc' = "job_loop"
              /\ inv'.res.kind = "FormSubmissionError") =>
            /\ Len(tracker'.submissions) = Len(tracker.submissions) + 1
            /\ \A i \in 1..Len(tracker.submissions) :
                   tracker'.submissions[i] = tracker.submissions[i]
            /\ tracker'.pending = << >>
            /\ Last(tracker'.submissions).outcome = "failed"
            /\ Last(tracker'.submissions).failure_reason = Reason(inv'.res.value, << >>)
            /\ inv'.res.value \in { FSE_NotClickable, FSE_NoButton, FSE_MaxSteps }
            /\ tracker'.postings[Last(tracker'.submissions).posting_id].platform_id
                   = posting.platform_id
            /\ inv'.recs = 1
            /\ metrics' = [metrics EXCEPT !.total_failed = @ + 1]
            /\ jobs' = jobs /\ jobIdx' = jobIdx + 1
            /\ urlIdx' = urlIdx /\ attempt' = attempt ]_vars
    /\ [] ( (pc = "job_loop" /\ inv.res.kind = "FormSubmissionError"
                /\ jobIdx <= Len(jobs)) => ENABLED StartPosting )

\* The second posting of a search being navigated to after the first one's
\* attempt raised FormSubmissionError and was recorded.
C7_Witness ==
    /\ pc = "navigate"
    /\ jobIdx = 2
    /\ searchLog = << 1 >>
    /\ Len(tracker.submissions) = 1
    /\ tracker.submissions[1].outcome = "failed"
    /\ tracker.submissions[1].failure_reason = Reason(FSE_NoButton, << >>)
    /\ metrics.total_failed = 1

\* ------------------------------------------------------------------- C8
\* No posting is being processed with the cap reached, and once
\* CapReachedError was raised run() is in or past its finally clause, with
\* the metrics finalized and end_session recorded: no search, posting or
\* re-authentication comes after it.
CapStopsProcessing ==
    /\ pc \in PostingStages =>
          ~ ( settings.max_submissions_per_session > 0
                /\ metrics.total_submitted >= settings.max_submissions_per_session )
    /\ capRaised =>
          /\ pc \in {"closing", "done"}
          /\ metrics.finalized
          /\ tracker.session = "ended"

\* C8: with a positive cap reached by the succeeded submissions,
\* CapReachedError is raised before the next posting is navigated to; it
\* triggers no re-authentication, no later search url is processed, the
\* session is finalized (end_session), and the browser and the tracker are
\* closed.
\* All but the last: tracker.close() is skipped when adapter.close() raises.
C8_CapStopsRunAndCloses ==
    /\ CapStopsProcessing
    /\ (capRaised /\ pc = "done" /\ interrupt = "none") =>
          closeLog = << "adapter", "tracker" >>

\* ------------------------------------------------------------------- C9
\* C9: the postings of a search are processed in the order discovery
\* returned them, one at a time, and when navigation to a posting begins
\* every record written so far (that of the posting before it included) is
\* committed.
C9_InOrderAndCommitted ==
    /\ [] ( pc \in PostingStages =>
               /\ jobIdx \in 1..Len(jobs)
               /\ inv.job = jobs[jobIdx]
               /\ inv.exit = "running"
               /\ LET Seen(j) == j \in Range(visited)
                  IN  visited = SelectSeq(SubSeq(jobs, 1, jobIdx), Seen) )
    /\ [] ( pc = "navigate" =>
               /\ tracker.pending = << >>
               /\ Len(tracker.submissions) = recordCalls
               /\ jobs[jobIdx] \notin Range(visited) )
    /\ [][ (pc \in PostingStages /\ pc' = "job_loop") =>
              (jobs' = jobs /\ jobIdx' = jobIdx + 1) ]_vars
    /\ [][ pc' = "navigate" => (pc = "job_loop" /\ jobs' = jobs /\ jobIdx' = jobIdx) ]_vars

\* Navigation to the second posting of a search begins with the record of the
\* first committed.
C9_Witness ==
    /\ pc = "navigate"
    /\ jobIdx = 2
    /\ searchLog = << 1 >>
    /\ recordCalls = 1
    /\ tracker.pending = << >>
    /\ Len(tracker.submissions) = 1
    /\ tracker.postings[tracker.submissions[1].posting_id].platform_id = jobs[1]

\* ------------------------------------------------------------------ C10
\* C10: once the browser is launched, every exit from run() (normal
\* completion, cap reached, AuthenticationError at startup, an interrupt
\* during processing) has called adapter.close() and then tracker.close().
\* An interrupt delivered inside adapter.close() is not among those exits.
\* When adapter.close() raises, run() is left with the tracker open.
C10_ClosesOnEveryExit ==
    (pc = "done" /\ launched /\ interrupt # "closing") =>
        closeLog = << "adapter", "tracker" >>

\* ------------------------------------------------------------------ C11
\* The extracted company contains a blocked-company term, compared without
\* regard to case.
CompanyIsBlocked(company) ==
    \E i \in 1..Len(blocked_companies) :
        /\ blocked_companies[i] # << >>
        /\ Contains(StrLower(company), StrLower(blocked_companies[i]))

\* C11: a posting whose extracted company contains a blocked-company term
\* (case-insensitive substring) ends with exactly one record, of outcome
\* "skipped_blacklist" with a non-empty reason, and with total_filtered
\* incremented; the Easy Apply control is neither looked up nor clicked and
\* attempt_submission is not called for it.
C11_BlockedCompanySkipped ==
    /\ [] ( (inv.inspected /\ CompanyIsBlocked(inv.details.company)) =>
              /\ inv.exit = "return"
              /\ inv.recs = 1
              /\ inv.res = NoResult
              /\ pc \notin { "find_easy_apply", "click_easy_apply", "attempt" }
              /\ tracker.pending = << >>
              /\ Len(tracker.submissions) > 0
              /\ Last(tracker.submissions).outcome = "skipped_blacklist"
              /\ Last(tracker.submissions).failure_reason # NoReason
              /\ Last(tracker.submissions).failure_reason.msg = "blocked_company:"
              /\ tracker.postings[Last(tracker.submissions).posting_id].platform_id
                     = inv.job )
    /\ [][ (inv'.inspected /\ ~inv.inspected
              /\ CompanyIsBlocked(inv'.details.company)) =>
            /\ pc = "inspect" /\ pc' = "job_loop"
            /\ Len(tracker'.submissions) = Len(tracker.submissions) + 1
            /\ metrics' = [metrics EXCEPT !.total_inspected = @ + 1,
                                          !.total_filtered = @ + 1]
            /\ UNCHANGED formVars ]_vars

\* A posting of company "SpC" was skipped by the blocked term "Sp", and the
\* search went on to its second posting.
C11_Witness ==
    /\ inv.inspected
    /\ inv.details.company = << "S", "p", "C" >>
    /\ inv.exit = "return"
    /\ pc = "job_loop"
    /\ jobIdx = 2
    /\ metrics.total_filtered = 1
    /\ Last(tracker.submissions).outcome = "skipped_blacklist"
    /\ Last(tracker.submissions).failure_reason = Reason("blocked_company:", << "s", "p" >>)

\* ------------------------------------------------------------------ C12
\* C12: when the Easy Apply lookup on a posting page that passed the filter
\* finds no control, the posting ends with exactly one record, of outcome
\* "skipped_duplicate", total_skipped is incremented (and no other counter
\* moves), and the form handler is never invoked for it.
C12_NoEasyApplySkipped ==
    /\ [] ( inv.lookup = "None" =>
              /\ inv.inspected
              /\ evaluate(JobPosting(inv.job, inv.details.title, inv.details.company))
                     = NoReason
              /\ inv.exit = "return"
              /\ inv.recs = 1
              /\ inv.res = NoResult
              /\ pc \notin { "click_easy_apply", "attempt" }
              /\ fpc = "idle"
              /\ tracker.pending = << >>
              /\ Len(tracker.submissions) > 0
              /\ Last(tracker.submissions).outcome = "skipped_duplicate"
              /\ tracker.postings[Last(tracker.submissions).posting_id].platform_id
                     = inv.job )
    /\ [][ (inv'.lookup = "None" /\ inv.lookup # "None") =>
            /\ pc = "find_easy_apply" /\ pc' = "job_loop"
            /\ Len(tracker'.submissions) = Len(tracker.submissions) + 1
            /\ metrics' = [metrics EXCEPT !.total_skipped = @ + 1]
            /\ UNCHANGED formVars ]_vars

\* A posting of an unblocked company whose page showed no Easy Apply control
\* was recorded as skipped, and the search went on to its second posting.
C12_Witness ==
    /\ inv.lookup = "None"
    /\ inv.details.company = << "A", "c" >>
    /\ pc = "job_loop"
    /\ jobIdx = 2
    /\ metrics.total_skipped = 1
    /\ metrics.total_inspected = 1
    /\ Last(tracker.submissions).outcome = "skipped_duplicate"

\* ------------------------------------------------------------------ C13
\* The positions of a call at which _perform_login is running or has returned.
LoginPositions == { "perform_login", "polling", "logged_in" }
\* The positions at which the call has returned.
ReturnedPositions == { "returned", "pipeline" }
\* _perform_login returned in the current call.
LoginSucceeded == sm.polls # << >> /\ Last(sm.polls)

\* C13: ensure_authenticated verifies first when a storage-state file
\* exists; after a successful verification it returns without any login step
\* and without writing the file; it runs the login only after a failed
\* verification or, with no verification at all, when no file exists; and
\* when the login succeeds it saves the storage state (once, as a new
\* content) before it returns.
C13_EnsureAuthenticatedTransitions ==
    sm.call = "ensure_authenticated" =>
        /\ sm.file_at_call # 0 =>
              /\ sm.at # "verify" => (sm.ops # << >> /\ sm.ops[1] = "verify")
              /\ sm.at \in LoginPositions => sm.verified = "failed"
        /\ sm.verified = "ok" =>
              /\ sm.at \in ReturnedPositions
              /\ sm.ops = << "verify" >>
              /\ sm.polls = << >>
              /\ sm.saved = 0
              /\ sm.state_file = sm.file_at_call
        /\ sm.file_at_call = 0 =>
              /\ sm.at # "verify"
              /\ sm.verified = "not_run"
              /\ "verify" \notin Range(sm.ops)
        /\ (sm.verified # "ok" /\ sm.at \in ReturnedPositions) =>
              /\ LoginSucceeded
              /\ Last(sm.ops) = "save"
        /\ sm.at = "perform_login" => ENABLED SubmitCredentials
        /\ sm.at = "logged_in" => ENABLED SaveStorageState
        /\ (LoginSucceeded /\ sm.at # "logged_in") =>
              /\ sm.at \in ReturnedPositions
              /\ sm.saved = 1
              /\ sm.state_file = sm.written + 1
              /\ sm.state_file # sm.file_at_call

\* ensure_authenticated found a file, failed to verify, logged in at the
\* third poll and returned with the file rewritten.
C13_Witness ==
    /\ sm.call = "ensure_authenticated"
    /\ sm.at = "returned"
    /\ sm.file_at_call = 1
    /\ sm.verified = "failed"
    /\ sm.polls = << FALSE, FALSE, TRUE >>
    /\ sm.state_file = 2

\* ------------------------------------------------------------------ C14
\* C14: _perform_login makes at most 18 polls after the credentials were
\* submitted; no poll follows a poll at which the url test or a logged-in
\* marker matched, and the login has succeeded exactly when its last poll
\* matched; it raises AuthenticationError when 18 polls were made and none
\* matched; with an empty identifier or secret it raises
\* AuthenticationError before any navigation, fill or click (and any poll).
C14_PerformLoginPolls ==
    /\ Len(sm.polls) <= 18
    /\ \A i \in 1..(Len(sm.polls) - 1) : ~sm.polls[i]
    /\ sm.polls # << >> => \A k \in 1..Len(LoginOps) : LoginOps[k] \in Range(sm.ops)
    /\ LoginSucceeded <=> (sm.at = "logged_in" \/ sm.saved = 1)
    /\ (sm.at = "polling" /\ Len(sm.polls) < 18) => ENABLED Poll
    /\ (Len(sm.polls) = 18 /\ ~sm.polls[18]) =>
            \/ sm.at = "polling" /\ ENABLED PollsExhausted /\ ~ENABLED Poll
            \/ sm.at \in { "raised", "pipeline" } /\ sm.exc = "AuthenticationError"
    /\ (sm.exc # "none" /\ sm.polls # << >>) =>
            /\ Len(sm.polls) = 18
            /\ sm.exc = "AuthenticationError"
    /\ (sm.email = "" \/ sm.password = "") =>
            /\ Range(sm.ops) \cap Range(LoginOps) = {}
            /\ sm.polls = << >>
            /\ sm.at \notin { "polling", "logged_in" }
            /\ (sm.exc # "none"
                  /\ ~("verify" \in Range(sm.ops) /\ sm.verified = "not_run")) =>
                    sm.exc = "AuthenticationError"

\* The login has raised AuthenticationError after its 18th poll failed.
C14_Witness ==
    /\ sm.at = "raised"
    /\ sm.exc = "AuthenticationError"
    /\ Len(sm.polls) = 18
    /\ \A i \in 1..18 : ~sm.polls[i]

\* ------------------------------------------------------------------ C15
\* C15: reauthenticate deletes the storage-state file (if present) before
\* any login operation, and the file does not exist while the login runs;
\* a call that returned has logged in and saved a new content as its last
\* operation; when the login fails (empty identifier or secret, or 18 failed
\* polls) AuthenticationError propagates, and whatever exception ends the
\* call (the browser's own error of a navigation, fill or click included)
\* no file exists afterwards.
C15_ReauthenticateDeletesThenLogsIn ==
    sm.call = "reauthenticate" =>
        /\ sm.at \in LoginPositions => sm.state_file = 0
        /\ sm.file_at_call # 0 => (sm.ops # << >> /\ sm.ops[1] = "unlink")
        /\ (sm.at \in ReturnedPositions /\ sm.exc = "none") =>
              /\ LoginSucceeded
              /\ Last(sm.ops) = "save"
              /\ sm.saved = 1
              /\ sm.state_file = sm.written + 1
              /\ sm.state_file # sm.file_at_call
        /\ sm.at = "logged_in" => ENABLED SaveStorageState
        /\ ((sm.email = "" \/ sm.password = "") /\ sm.at \notin { "perform_login" }) =>
              sm.exc = "AuthenticationError"
        /\ (Len(sm.polls) = 18 /\ ~Last(sm.polls) /\ sm.at # "polling") =>
              sm.exc = "AuthenticationError"
        /\ sm.exc # "none" =>
              /\ sm.at \in { "raised", "pipeline" }
              /\ sm.state_file = 0
              /\ sm.saved = 0
              /\ sm.exc = "Error" <=>
                    /\ sm.email # "" /\ sm.password # ""
                    /\ sm.polls = << >>
                    /\ \E k \in 1..Len(LoginOps) : Last(sm.ops) = LoginOps[k]

\* reauthenticate deleted the file left by ensure_authenticated's login and
\* its own login failed after 18 polls: no file is left.
C15_Witness ==
    /\ sm.call = "reauthenticate"
    /\ sm.file_at_call = 2
    /\ sm.at = "raised"
    /\ sm.exc = "AuthenticationError"
    /\ Len(sm.polls) = 18
    /\ sm.state_file = 0

\* ------------------------------------------------------------------ C16
\* C16: each call of ensure_authenticated or reauthenticate calls
\* save_storage_state at most once, and only after its login succeeded; the
\* file's content changes in no other step than that save (the only other
\* change is reauthenticate's deletion), so a run writes the file at most
\* once per call.
C16_BlobWrittenOncePerEvent ==
    /\ [] ( /\ sm.saved <= 1
            /\ sm.saved = 1 => (LoginSucceeded /\ Last(sm.ops) = "save")
            /\ sm.written <= sm.calls
            /\ Cardinality({ i \in 1..Len(sm.ops) : sm.ops[i] = "save" }) = sm.saved )
    /\ [][ sm'.written # sm.written =>
            /\ sm.at = "logged_in"
            /\ LoginSucceeded
            /\ sm.saved = 0 /\ sm'.saved = 1
            /\ sm'.written = sm.written + 1
            /\ sm'.call = sm.call ]_vars
    /\ [][ sm'.state_file # sm.state_file =>
            \/ sm'.written = sm.written + 1
            \/ /\ sm'.state_file = 0
               /\ sm.at = "pipeline"
               /\ sm'.call = "reauthenticate"
               /\ sm'.ops = << "unlink" >> ]_vars

\* ensure_authenticated and the reauthenticate after it have each logged in
\* and written the file once.
C16_Witness ==
    /\ sm.call = "reauthenticate"
    /\ sm.calls = 2
    /\ sm.at = "returned"
    /\ sm.saved = 1
    /\ sm.written = 2
    /\ sm.state_file = 3

\* ------------------------------------------------------------------ C17
\* C17: after ensure_valid_page returns with a browser context present the
\* tracked page is open: it is the page tracked before when that one was
\* open (and nothing else changed); otherwise it is the first of the
\* context's open pages, or, when the context had none, a page opened by the
\* call, the only page of the context, with the stealth script applied.
C17_EnsureValidPageTracksOpenPage ==
    [][ (EnsureValidPage /\ ad.context # "None") =>
          /\ page_open(ad')
          /\ page_open(ad) =>
                /\ ad'.page = ad.page
                /\ ad'.pages = ad.pages
                /\ ad'.stealth = ad.stealth
                /\ ad'.next = ad.next
          /\ (~page_open(ad) /\ ad.pages # << >>) =>
                /\ ad'.page = ad.pages[1]
                /\ ad'.pages = ad.pages
                /\ ad'.stealth = ad.stealth
                /\ ad'.next = ad.next
          /\ (~page_open(ad) /\ ad.pages = << >>) =>
                /\ ad'.page \notin 1..(ad.next - 1)
                /\ ad'.pages = << ad'.page >>
                /\ ad'.page \in ad'.stealth ]_vars

\* Every page had been closed: ensure_valid_page has opened page 2, with
\* the stealth script, and tracks it.
C17_Witness ==
    /\ ad.op = "ensure_valid_page"
    /\ ad.page = 2
    /\ ad.pages = << 2 >>
    /\ ad.stealth = { 1, 2 }

\* ------------------------------------------------------------------ C19
\* What a lookup or read operation returns when no element matches.
NotFoundValue(op) ==
    CASE op \in { "query", "wait_for_selector", "get_attribute" } -> "None"
      [] op = "query_all" -> "[]"
      [] op \in { "inner_text", "inner_html" } -> "empty_string"

\* C19: query, query_all, wait_for_selector, inner_text, inner_html and
\* get_attribute never raise when their selector matches no element (the
\* tracked page being open or closed): they return None, the empty list or
\* the empty string; click and fill on a selector that matches no element
\* raise.
C19_LookupsReturnEmptyClickFillRaise ==
    /\ (ad.op \in LookupOps /\ ~ad.present) =>
          /\ ad.ret = "returned"
          /\ ad.value = NotFoundValue(ad.op)
    /\ (ad.op \in ActOps /\ ~ad.present) => ad.ret = "raised"
    /\ (ad.op \in ActOps /\ ad.present) => ad.ret = "returned"

\* inner_text was called while the tracked page was closed and another page
\* was open: it returned "" and the adapter switched to the open page.
C19_Witness ==
    /\ ad.op = "inner_text"
    /\ ~ad.present
    /\ ad.ret = "returned"
    /\ ad.value = "empty_string"
    /\ ad.page = 2
    /\ ad.pages = << 2 >>
    /\ ad.stealth = { 1 }

\* ------------------------------------------------------------------ C18
\* C18: ensure_valid_page runs before and after every posting is processed
\* (a posting that ended has it as the first and as the last of its
\* recovery calls), whichever way the posting ends, and once more when the
\* first page load raised.
\* The finally clause holding the second call guards only the form attempt
\* (orchestrator.py 211-234): the returns at 149, 168, 175 and 188 and the
\* exceptions raised before 211 leave without it.
C18_RecoveryBeforeAndAfterEveryPosting ==
    /\ inv.exit \notin { "none", "running" } =>
          /\ Len(inv.recovery) >= 2
          /\ inv.recovery[1] = "before"
          /\ Last(inv.recovery) = "after"
    /\ (inv.exit = "running" /\ pc # "navigate") =>
          (inv.recovery # << >> /\ inv.recovery[1] = "before")

\* ------------------------------------------------------------------ C20
\* C20: in populate_visible_fields a failure while one control is matched or
\* filled never aborts the pass: no exception leaves the call, every label
\* and every fieldset of the page is handled (a control that failed is
\* skipped), and the later passes run to the end.
\* A stale label handle raises at `await label_el.inner_text()`
\* (field_filler.py 93), outside any try block: the exception leaves
\* _fill_text_inputs and populate_visible_fields.
C20_FillFailureNeverAbortsPass ==
    /\ ff.pass # "raised"
    /\ "raised" \notin Range(ff.label_done) \cup Range(ff.fieldset_done)
    /\ ff.pass \notin { "scroll", "phone", "text_inputs" } =>
          Len(ff.label_done) = ff.labels

\* ------------------------------------------------------------------ C21
\* C21: no pass of populate_visible_fields changes a control that already
\* holds a non-empty value or selection (a text input, a textarea, a
\* dropdown on a non-placeholder option, a radio group with a checked
\* option): whatever the control held when the call began, it holds at every
\* pass of the call, the second call on the page included.
C21_HeldValueNeverChanged ==
    holds_value(fm.found) => fm.control.value = fm.found.value

BlockedIn(terms, text) ==
    \E i \in 1..Len(terms) :
        /\ Strip(terms[i]) # << >>
        /\ Contains(StrLower(text), StrLower(Strip(terms[i])))

SameIdentity(p, q) == p.platform = q.platform /\ p.platform_id = q.platform_id

\* C24: upsert_posting called with postings of one (platform, platform_id)
\* returns the same row id every time and leaves exactly one row of that
\* identity, and that row keeps the fields of the first posting upserted
\* with it.
C24_UpsertKeepsOneRow ==
    \A i \in 1..Len(db.upserts) :
        LET p == db.upserts[i].posting
            first == CHOOSE k \in 1..i :
                        /\ SameIdentity(db.upserts[k].posting, p)
                        /\ \A m \in 1..(k - 1) :
                              ~SameIdentity(db.upserts[m].posting, p)
        IN  /\ db.upserts[i].id = db.upserts[first].id
            /\ Cardinality(rows_of(db.postings, p)) = 1
            /\ db.postings[db.upserts[i].id] = db.upserts[first].posting

\* A posting was upserted, then one of another identity, then one of the
\* first identity with another title, which got the first row's id.
C24_Witness ==
    /\ Len(db.upserts) >= 3
    /\ SameIdentity(db.upserts[1].posting, db.upserts[3].posting)
    /\ db.upserts[1].posting.title # db.upserts[3].posting.title
    /\ ~SameIdentity(db.upserts[1].posting, db.upserts[2].posting)
    /\ db.upserts[2].posting.platform_id = db.upserts[1].posting.platform_id
    /\ db.upserts[3].id = 1
    /\ Len(db.postings) = 2
    /\ db.submissions > 0

\* ------------------------------------------------------------------ C25
\* The page shows the affordance to the check the loop makes for it.
Shows(page, a) ==
    CASE a = "submit" -> find_submit_with_scroll(page)
      [] a = "review" -> "review" \in page.sel
      [] a = "next" -> "next" \in page.sel
      [] OTHER -> js_click_bottom_button(page)

\* C25: an iteration of the stepping loop looks for Submit, Review, Next and
\* the script fallback in that order and acts on at most one of them, the
\* first the page shows; a click on Review only leads to the next
\* iteration; and the loop ends only by finding Submit, by finding no
\* control at all, or by exhausting the bound.
C25_SteppingLoopOrderAndExits ==
    /\ \E n \in 0..Len(AFFORDANCES) : ms.looked = SubSeq(AFFORDANCES, 1, n)
    /\ Len(ms.acted) <= 1
    /\ \A k \in 1..Len(ms.looked) :
          Shows(ms.page, ms.looked[k])
              <=> (k = Len(ms.looked) /\ ms.acted = << ms.looked[k] >>)
    /\ ms.acted = << "review" >> => (ms.exit = "continue" /\ fres = NoResult)
    /\ (fpc = "done" /\ ms # NoIteration)
          => \/ ms.exit = "terminal"
             \/ ms.exit = "no_control"
             \/ ms.exit = "continue" /\ ~loop_continues(step)

\* ------------------------------------------------------------------ C26
\* C26: outside simulation mode _submit_final tries the script click on the
\* handle, the forced native click and the script find-and-click in that
\* order, a later one only when every earlier one failed; the attempt is
\* "succeeded" as soon as one reports success, and FormSubmissionError
\* (submit button not clickable) is raised exactly when all three fail.
C26_ClickStrategiesEscalate ==
    (sf.called /\ ~settings.simulation_mode)
        => /\ \E n \in 1..Len(STRATEGIES) : sf.tried = SubSeq(STRATEGIES, 1, n)
           /\ Len(sf.ok) = Len(sf.tried)
           /\ \A k \in 1..(Len(sf.tried) - 1) : ~sf.ok[k]
           /\ Len(sf.tried) < Len(STRATEGIES) => Last(sf.ok)
           /\ Last(sf.ok) <=> fres = Returned("succeeded", TRUE)
           /\ ~Last(sf.ok) <=> fres = Raised("FormSubmissionError", FSE_NotClickable)

\* The third strategy alone succeeded, on the Submit control of a later step
\* of the form.
C26_Witness ==
    /\ ~settings.simulation_mode
    /\ sf.called
    /\ sf.ok = << FALSE, FALSE, TRUE >>
    /\ fres = Returned("succeeded", TRUE)
    /\ step > 0

\* ------------------------------------------------------------------ C27
\* C27: an auth redirect seen after the load of a search page, of a later
\* result page or of a posting page raises SessionExpiredError; the error
\* passes the per-posting and per-search handlers to the re-auth wrapper
\* (which re-authenticates, or raises it again on its last attempt), and
\* for the posting it was raised on no outcome is recorded and no counter
\* changes.
C27_SessionExpiredReachesWrapper ==
    /\ [][ Len(expiredLog') > Len(expiredLog)
            => /\ pc \in { "scrape", "inspect" }
               /\ IF reauth_exhausted(attempt) THEN pc' = "url_loop"
                  ELSE pc' = "reauth" /\ attempt' = attempt
               /\ metrics' = metrics
               /\ tracker' = tracker
               /\ recordCalls' = recordCalls
               /\ pc = "inspect" => /\ inv'.exit = "SessionExpiredError"
                                    /\ inv'.job = jobs[jobIdx]
                                    /\ inv'.recs = 0
                                    /\ ~inv'.inspected ]_vars
    /\ [][ (inv'.exit = "SessionExpiredError" /\ inv.exit # "SessionExpiredError")
            => Len(expiredLog') > Len(expiredLog) ]_vars

\* The first posting of a search was recorded, and the page of the second
\* one was an auth redirect: the wrapper is about to re-authenticate, with
\* one record in the tracker.
C27_Witness ==
    /\ pc = "reauth"
    /\ inv.exit = "SessionExpiredError"
    /\ inv.recs = 0
    /\ expiredLog # << >>
    /\ metrics.total_inspected = 1
    /\ Len(tracker.submissions) = 1

\* ------------------------------------------------------------------ C28
\* The entries of a log made for url u.
CallsFor(log, u) == { i \in 1..Len(log) : log[i] = u }
ReauthsFor(u) == { i \in 1..Len(reauthLog) : reauthLog[i].url = u }

\* C28: for one search url _run_with_reauth calls _process_search at most 3
\* times and reauthenticate at most 2 times; reauthenticate is called only
\* after a SessionExpiredError of that url, one call for each; and the third
\* SessionExpiredError is raised again with no further re-authentication.
C28_ReauthWrapperBounds ==
    /\ [](\A u \in 1..NumUrls :
            /\ Cardinality(CallsFor(searchLog, u)) <= MAX_REAUTH_ATTEMPTS
            /\ Cardinality(ReauthsFor(u)) <= MAX_REAUTH_ATTEMPTS - 1
            /\ Cardinality(ReauthsFor(u)) <= Cardinality(CallsFor(expiredLog, u)))
    /\ [][ Len(reauthLog') > Len(reauthLog)
            => /\ expiredLog # << >>
               /\ Last(expiredLog) = urlIdx
               /\ Last(reauthLog').url = urlIdx
               /\ Cardinality(ReauthsFor(urlIdx))
                    = Cardinality(CallsFor(expiredLog, urlIdx)) - 1 ]_vars
    /\ [][ ( /\ Len(expiredLog') > Len(expiredLog)
             /\ Cardinality(CallsFor(expiredLog', urlIdx)) = MAX_REAUTH_ATTEMPTS )
            => /\ pc' # "reauth"
               /\ exhaustedAt' # 0
               /\ reauthLog' = reauthLog ]_vars

\* The first url met three auth redirects: two re-authentications returned,
\* three searches were run, and the third error left the wrapper.
C28_Witness ==
    /\ expiredLog = << 1, 1, 1 >>
    /\ searchLog = << 1, 1, 1 >>
    /\ Cardinality(ReauthsFor(1)) = 2
    /\ exhaustedAt = 1
    /\ pc = "url_loop"

\* ------------------------------------------------------------------ C29
\* run() is in or past its finally clause, start_session never ran and no
\* interrupt was delivered: the AuthenticationError of ensure_authenticated
\* left the try block.
StartupAuthFailed ==
    /\ launched
    /\ pc \in {"closing", "done"}
    /\ tracker.session = "none"
    /\ interrupt = "none"

\* After the startup failure no search was processed, no posting visited or
\* recorded, no re-authentication tried and the metrics are as constructed.
StartupFailureProcessesNothing ==
    StartupAuthFailed =>
        /\ searchLog = << >>
        /\ reauthLog = << >>
        /\ expiredLog = << >>
        /\ visited = << >>
        /\ recordCalls = 0
        /\ tracker.submissions = << >>
        /\ tracker.pending = << >>
        /\ ~ metrics.finalized
        /\ urlIdx = 1

\* C29: when ensure_authenticated raises AuthenticationError at startup, no
\* session is started in the tracker, no search url is processed and no
\* posting is recorded; the browser and the tracker are closed and the
\* AuthenticationError is what run() raises.
\* All but the last sentence: when adapter.close() raises, tracker.close() is
\* skipped and the error of close() replaces the AuthenticationError.
C29_StartupAuthFailureClosesAndPropagates ==
    /\ StartupFailureProcessesNothing
    /\ (StartupAuthFailed /\ pc = "done") =>
          /\ closeLog = << "adapter", "tracker" >>
          /\ runExc = "AuthenticationError"

\* ------------------------------------------------------------------ C31
\* C31: _ensure_english never raises: whatever fails inside it, the call of
\* ensure_authenticated or reauthenticate it is part of goes on as if it had
\* succeeded.  After a valid stored session the call returns; after a
\* successful login the storage state is saved, once, and the call returns.
C31_EnsureEnglishNeverRaises ==
    /\ [] ( sm.english.ran =>
               /\ sm.english.result = "returned"
               /\ sm.at \in {"returned", "pipeline"}
               /\ sm.exc = "none"
               /\ sm.verified # "ok" =>
                     (sm.saved = 1 /\ Last(sm.ops) = "save" /\ sm.state_file # 0) )
    /\ [][ sm.at = "logged_in" =>
             /\ sm'.english.ran
             /\ sm'.at = "returned"
             /\ sm'.saved = 1
             /\ sm'.state_file # sm.state_file ]_vars
    /\ [][ (sm.at = "verify" /\ sm'.verified = "ok") =>
             (sm'.english.ran /\ sm'.at = "returned") ]_vars

\* A login succeeded, a call inside _ensure_english raised, and the storage
\* state was saved all the same.
C31_Witness ==
    /\ sm.english.exc = "Error"
    /\ sm.english.calls # ENGLISH_CALLS
    /\ sm.call = "reauthenticate"
    /\ sm.at = "returned"
    /\ sm.saved = 1
    /\ sm.state_file # 0

\* ------------------------------------------------------------------ C32
\* C32: a call of close_extra_pages on a context with pages leaves the first
\* page of the context tracked, with close() called on every other page and
\* no page opened; and when the form attempt of a posting began by tracking
\* the newest page of the context, every exit of the attempt goes through
\* close_extra_pages and ensure_valid_page, after which the tracked page is
\* the first page of the context, and open.
C32_CleanupTracksFirstPage ==
    /\ [][ ( /\ CloseExtraPages \/ CleanupCloseExtraPages
             /\ ad.context # "None"
             /\ ad.pages # << >> ) =>
              /\ ad'.page = ad.pages[1]
              /\ ad'.pages # << >>
              /\ ad'.page = ad'.pages[1]
              /\ ad'.close_requested = Range(ad.pages) \ { ad.pages[1] }
              /\ Range(ad'.pages) \subseteq Range(ad.pages) ]_vars
    /\ [][ ad.flow = "attempt" => ad'.flow \in { "attempt", "close_extra_pages" } ]_vars
    /\ [][ ad.flow = "close_extra_pages" =>
              ad'.flow \in { "close_extra_pages", "ensure_valid_page" } ]_vars
    /\ [][ ad'.flow = "idle" => ad.flow \in { "idle", "ensure_valid_page" } ]_vars
    /\ [][ (ad.flow = "ensure_valid_page" /\ ad'.flow = "idle" /\ ad.switched) =>
              /\ page_open(ad')
              /\ ad'.page = ad'.pages[1] ]_vars

\* A form attempt began on the popup (page 2, the newest of two pages),
\* ended with an exception, and the cleanup closed the popup: page 1 is
\* tracked again and is the only page.
C32_Witness ==
    /\ ad.switched
    /\ ad.exit = "Exception"
    /\ ad.flow = "idle"
    /\ ad.op = "ensure_valid_page"
    /\ ad.close_requested = { 2 }
    /\ ad.pages = << 1 >>
    /\ ad.page = 1

\* ------------------------------------------------------------------ C33
\* C33: navigate loads the page once or twice.  It makes a second load
\* exactly when the first one failed with a closed-target error, after a
\* page recovery, and then ends as the second load ends; a first load that
\* succeeded returns, and any other failure of the first load is raised with
\* no recovery and no second load.
C33_NavigateRetriesOnce ==
    ad.op = "navigate" =>
        LET loads == ad.nav.loads
        IN  /\ Len(loads) \in 1..2
            /\ Len(loads) = 2 <=> (loads[1] # Loaded /\ is_closed_target(loads[1]))
            /\ ad.nav.recovered <=> Len(loads) = 2
            /\ ad.ret = (IF Last(loads) = Loaded THEN "returned" ELSE "raised")
            /\ (loads[1] # Loaded /\ loads[1] \in { TimeoutMsg, TargetCrashedMsg, NotLaunchedMsg })
                  => (loads = << loads[1] >> /\ ~ad.nav.recovered /\ ad.ret = "raised")

\* The first load failed on a closed target, the adapter recovered by opening
\* page 2, and the second load timed out: navigate raised.
C33_Witness ==
    /\ ad.op = "navigate"
    /\ ad.nav = NavigateCall(<< TargetClosedMsg, TimeoutMsg >>, TRUE)
    /\ ad.ret = "raised"
    /\ ad.page = 2
    /\ ad.pages = << 2 >>

\* ------------------------------------------------------------------ C34
\* The places of the table whose key the label contains.
MatchingKeys(responses, label) ==
    { i \in 1..Len(responses) : responses[i][1] \in Range(label) }

\* C34: in every pass, when keys of the response table are part of the
\* label, the answer found is that of the first of them in the table's
\* insertion order (and no answer is found when none is).
\* Not in the script passes: Object.entries puts a key that is an array
\* index before the keys inserted ahead of it.
C34_FirstKeyInInsertionOrderWins ==
    rt.pass # "none" =>
        LET m == MatchingKeys(rt.responses, rt.label)
        IN  IF m = {} THEN rt.answer = ""
            ELSE rt.answer = rt.responses[CHOOSE i \in m : \A j \in m : i <= j][2]

\* ------------------------------------------------------------------ C35
\* A resume file path is configured, the file exists and a file input
\* accepts it.
ResumeAccepted ==
    /\ rp.path # ""
    /\ rp.exists
    /\ \/ \E i \in 1..Len(rp.inputs) : rp.inputs[i]
       \/ rp.hidden = "accepts"

\* C35 as stated: with the file accepted it is uploaded and no card is
\* clicked; otherwise, with the marker and at least one card present,
\* exactly one card is clicked, at index preferred - 1 when 1 <= preferred <=
\* number of cards and at index 0 otherwise.
\* Not when reading the card's aria-label raises: no card is clicked then.
C35_ExactlyOneCardClicked ==
    rp.called =>
        /\ ResumeAccepted => (rp.uploaded /\ rp.clicks = << >>)
        /\ (~ResumeAccepted /\ rp.marker /\ rp.cards >= 1) =>
              rp.clicks = << IF rp.preferred_index \in 1..rp.cards
                             THEN rp.preferred_index - 1 ELSE 0 >>

\* C35, amended: when a resume file path is configured, the file exists and
\* a file input accepts it, select_resume uploads the file and clicks no
\* card.  Otherwise nothing is uploaded; a card is clicked only when the
\* required-upload marker and at least one card are present, and then
\* click() is called on exactly one card unless reading that card's
\* aria-label raises (then on none): the card at 0-based index preferred - 1
\* when 1 <= preferred <= number of cards, the card at index 0 otherwise.
C35_ResumeSelection ==
    rp.called =>
        LET accepted == /\ rp.path # ""
                        /\ rp.exists
                        /\ \/ \E i \in 1..Len(rp.inputs) : rp.inputs[i]
                           \/ rp.hidden = "accepts"
            expected == IF rp.preferred_index \in 1..rp.cards
                        THEN rp.preferred_index - 1 ELSE 0
        IN  /\ rp.uploaded <=> accepted
            /\ accepted => rp.clicks = << >>
            /\ (~accepted /\ rp.marker /\ rp.cards >= 1 /\ ~rp.read_raises)
                  => rp.clicks = << expected >>
            /\ (~accepted /\ rp.marker /\ rp.cards >= 1 /\ rp.read_raises)
                  => rp.clicks = << >>
            /\ (~rp.marker \/ rp.cards = 0) => rp.clicks = << >>

\* No upload (the configured file does not exist); two cards and the marker
\* are there and the preferred index is 3, beyond the last card: the first
\* card was clicked.
C35_Witness ==
    /\ rp.called
    /\ rp.path # ""
    /\ ~rp.exists
    /\ ~rp.uploaded
    /\ rp.marker
    /\ rp.cards = 2
    /\ rp.preferred_index = 3
    /\ rp.clicks = << 0 >>

\* ------------------------------------------------------------------ C36
\* C36: with a positive cap, total_submitted never exceeds the cap: no
\* posting is started with the cap reached, and total_submitted changes only
\* at the end of a form attempt, by one.
C36_SubmittedWithinCap ==
    /\ [] ( settings.max_submissions_per_session > 0 =>
               metrics.total_submitted <= settings.max_submissions_per_session )
    /\ [][ pc' = "navigate" =>
              /\ pc = "job_loop"
              /\ ~check_cap(settings.max_submissions_per_session,
                            metrics.total_submitted) ]_vars
    /\ [][ metrics'.total_submitted # metrics.total_submitted =>
              /\ pc = "attempt"
              /\ pc' = "job_loop"
              /\ metrics'.total_submitted = metrics.total_submitted + 1 ]_vars

\* With a cap of 1, one application was submitted and CapReachedError was
\* raised in front of the second posting discovered.
C36_Witness ==
    /\ settings.max_submissions_per_session = 1
    /\ metrics.total_submitted = 1
    /\ capRaised
    /\ discovered = 2
    /\ recordCalls = 1

\* ------------------------------------------------------------------ C37
\* The 'succeeded' rows of the submissions table.
SucceededRecords ==
    Cardinality({ i \in 1..Len(tracker.submissions) :
                    tracker.submissions[i].outcome = "succeeded" })

\* The four outcome counters together.
OutcomeCount(m) ==
    m.total_submitted + m.total_filtered + m.total_failed + m.total_skipped

\* C37: the four outcome counters together never exceed total_inspected;
\* total_submitted is the number of 'succeeded' rows written; a posting that
\* reaches detail extraction raises total_inspected by one at that step and
\* nowhere else, and the outcome counters rise by one in all, only in the
\* step in which an inspected posting returns.
C37_CountersConsistent ==
    /\ [] ( /\ OutcomeCount(metrics) <= metrics.total_inspected
            /\ metrics.total_submitted = SucceededRecords )
    /\ [][ /\ metrics'.total_inspected - metrics.total_inspected
                 = IF inv'.inspected /\ ~inv.inspected THEN 1 ELSE 0
           /\ inv'.inspected /\ ~inv.inspected => pc = "inspect"
           /\ OutcomeCount(metrics') - OutcomeCount(metrics) \in { 0, 1 }
           /\ \A f \in { "total_submitted", "total_filtered",
                          "total_failed", "total_skipped" } :
                 metrics'[f] >= metrics[f]
           /\ OutcomeCount(metrics') # OutcomeCount(metrics) =>
                 /\ inv'.inspected
                 /\ inv.exit = "running"
                 /\ inv'.exit = "return" ]_vars

\* Two postings were inspected; one was submitted and the other raised no
\* outcome counter.
C37_Witness ==
    /\ metrics.total_inspected = 2
    /\ metrics.total_submitted = 1
    /\ OutcomeCount(metrics) = 1
    /\ SucceededRecords = 1
    /\ pc = "job_loop"

\* ------------------------------------------------------------------ C38
\* The submissions rows of the posting with platform id j.
RowsOfJob(j) ==
    { i \in 1..Len(tracker.submissions) :
        tracker.postings[tracker.submissions[i].posting_id].platform_id = j }

\* C38: a successful re-authentication is followed by the scrape of the same
\* search url, with the job list, the loop index and the visits of the
\* interrupted call dropped; the rows written before the expiry stay, and a
\* posting started after the retry is whichever the new list holds, rows or
\* not.
C38_RetryRestartsFromDiscovery ==
    /\ [][ pc = "reauth" /\ attempt' = attempt + 1 =>
              /\ pc' = "scrape"
              /\ urlIdx' = urlIdx
              /\ jobs' = <<>> /\ jobIdx' = 1 /\ visited' = <<>>
              /\ tracker' = tracker ]_vars
    /\ [][ pc = "scrape" /\ pc' = "job_loop" =>
              /\ searchLog' = Append(searchLog, urlIdx)
              /\ jobIdx' = 1 ]_vars
    /\ [][ pc = "job_loop" /\ pc' = "navigate" =>
              inv'.job = jobs[jobIdx] ]_vars
    /\ [][ \A i \in 1..Len(tracker.submissions) :
              /\ i <= Len(tracker'.submissions)
              /\ tracker'.submissions[i] = tracker.submissions[i] ]_vars

\* After one re-authentication the search of the first url was run again, and
\* the posting recorded before the expiry has a second row.
C38_Witness ==
    /\ urlIdx = 1
    /\ attempt = 2
    /\ reauthLog = << [url |-> 1, ok |-> TRUE] >>
    /\ searchLog = << 1, 1 >>
    /\ pc = "job_loop"
    /\ \E i, k \in RowsOfJob(inv.job) : i = 1 /\ k > i

\* ------------------------------------------------------------------ C39
\* The posting _process_single_posting builds when _extract_posting_details
\* raises: the job id, title and company empty.
UnreadPosting(j) == JobPosting(j, NoDetails.title, NoDetails.company)

RowsWithOutcome(o) ==
    { i \in 1..Len(tracker.submissions) : tracker.submissions[i].outcome = o }

\* C40: in simulation mode total_submitted is 0 in every state of the run, no
\* 'succeeded' row is written, the cap is never reached and CapReachedError
\* never raised, and whenever _process_search's loop stands at a posting the
\* next step starts that posting.
C40_SimulationNeverReachesCap ==
    /\ [] ( settings.simulation_mode =>
               /\ metrics.total_submitted = 0
               /\ RowsWithOutcome("succeeded") = {}
               /\ ~CapReached
               /\ ~capRaised
               /\ runExc # "CapReachedError" )
    /\ [][ settings.simulation_mode /\ pc = "job_loop" /\ jobIdx <= Len(jobs) =>
              /\ pc' = "navigate"
              /\ inv'.job = jobs[jobIdx] ]_vars

\* Simulation with a cap of 1: two postings went through the form, both are
\* recorded "dry_run", and the loop was not stopped.
C40_Witness ==
    /\ settings.simulation_mode
    /\ settings.max_submissions_per_session = 1
    /\ Cardinality(RowsWithOutcome("dry_run")) = 2
    /\ metrics.total_submitted = 0
    /\ metrics.total_inspected = 2
    /\ ~capRaised

====
